---- MODULE Spec2Model ----
(***************************************************************************)
(* Stock ledger of the sheet-metal inventory application.                  *)
(*                                                                         *)
(* The store (Firestore) holds two collections that the ledger handlers    *)
(* write: `inventory` (the units) and `usage_logs` (the consumption        *)
(* records).  The React client keeps a cached copy of both collections     *)
(* (`inventory`, `usageLog` of useFirestoreData) which every handler       *)
(* filters; no handler ever calls transaction.get, so a transaction is a   *)
(* list of blind writes that commits atomically or not at all.             *)
(***************************************************************************)
EXTENDS Integers, Sequences, FiniteSets, TLC

\* ------------------------------------------------------------------ bounds
MaxUnits == 2
MaxLogs == 2
MaxTime == 1
MaxQty == 2
MaxLengths == 2
MaxLag == 1

\* ------------------------------------------------------- program constants
STANDARD_LENGTHS == <<96, 120, 144>>
Materials == {"A16GA"}
NoId == 0

Lengths == {STANDARD_LENGTHS[i] : i \in 1..Len(STANDARD_LENGTHS)}

VARIABLES
    units,      \* store: collection `inventory`, unit id -> document
    logs,       \* store: collection `usage_logs`, record id -> document
    inventory,  \* client cache of `inventory` (useFirestoreData)
    usageLog,   \* client cache of `usage_logs` (useFirestoreData)
    nextUnit,   \* next fresh document id of `inventory`
    nextLog,    \* next fresh document id of `usage_logs`
    now,        \* the clock read by new Date()
    lag,        \* commits the client cache has not been told of yet
    last,       \* the handler that is returning: its argument and outcome
    materialDocs,   \* store: collection `materials`, material id -> document
    materials,      \* client cache of `materials`
    deleting,       \* handleConfirmDeleteCategories while it runs: its chunks
    ui,             \* state of App: categoriesToDelete, isEditMode, modal, activeView
    otherView       \* inventory and usageLog as a second client's cache has them

vars == <<units, logs, inventory, usageLog, nextUnit, nextLog, now, lag, last,
          materialDocs, materials, deleting, ui, otherView>>

\* ------------------------------------------------------------ small helpers
Range(s) == {s[i] : i \in 1..Len(s)}

Take(s, n) == IF n >= Len(s) THEN s ELSE SubSeq(s, 1, n)

\* Ascending enumeration of a finite set of document ids (the order in which
\* a snapshot lists the documents).
Enumerate(S) ==
    IF S = {} THEN <<>>
    ELSE LET top == CHOOSE x \in S : \A y \in S : y <= x
         IN  SelectSeq([i \in 1..top |-> i], LAMBDA i : i \in S)

\* A document of the client cache carries its id: { id: doc.id, ...doc.data() }.
Sheet(inv, id) == [id |-> id] @@ inv[id]

\* ------------------------------------------------------------ the store
\* One staged write of a transaction or write batch.
Update(coll, id, data) == [op |-> "update", coll |-> coll, id |-> id, data |-> data]
Set(coll, id, data) == [op |-> "set", coll |-> coll, id |-> id, data |-> data]
Delete(coll, id) == [op |-> "delete", coll |-> coll, id |-> id, data |-> <<>>]

Merge(old, data) ==
    [f \in DOMAIN old |-> IF f \in DOMAIN data THEN data[f] ELSE old[f]]

ApplyToColl(c, w) ==
    CASE w.op = "update" -> [c EXCEPT ![w.id] = Merge(c[w.id], w.data)]
      [] w.op = "set"    -> [i \in DOMAIN c \cup {w.id} |->
                                IF i = w.id THEN w.data ELSE c[i]]
      [] w.op = "delete" -> [i \in DOMAIN c \ {w.id} |-> c[i]]

\* Applies the staged writes in order.  An update of a document that does
\* not exist makes the whole commit fail.
RECURSIVE ApplyWrites(_, _)
ApplyWrites(st, ws) ==
    IF ws = <<>> \/ ~st.ok THEN st
    ELSE LET w == Head(ws)
             c == IF w.coll = "inventory" THEN st.inv ELSE st.log
         IN  IF w.op = "update" /\ w.id \notin DOMAIN c
             THEN [st EXCEPT !.ok = FALSE]
             ELSE ApplyWrites(
                    IF w.coll = "inventory"
                    THEN [st EXCEPT !.inv = ApplyToColl(c, w)]
                    ELSE [st EXCEPT !.log = ApplyToColl(c, w)],
                    Tail(ws))

\* What the same writes would do outside a transaction (one updateDoc/setDoc
\* after another): the writes staged before a throw stay written.
RunWithoutRollback(inv, log, plan) ==
    LET st == ApplyWrites([ok |-> TRUE, inv |-> inv, log |-> log], plan.writes)
    IN  IF plan.err # "none" THEN [ok |-> FALSE, err |-> plan.err, inv |-> st.inv, log |-> st.log]
        ELSE IF ~st.ok THEN [ok |-> FALSE, err |-> "commit", inv |-> inv, log |-> log]
        ELSE [ok |-> TRUE, err |-> "none", inv |-> st.inv, log |-> st.log]

\* runTransaction(db, fn): fn stages writes and may throw.  A throw rejects
\* the transaction and nothing is written; otherwise the writes commit
\* together.  plan = [err, writes, ...] is what fn did.
RunTransaction(inv, log, plan) ==
    LET st == ApplyWrites([ok |-> TRUE, inv |-> inv, log |-> log], plan.writes)
    IN  IF plan.err # "none" THEN [ok |-> FALSE, err |-> plan.err, inv |-> inv, log |-> log]
        ELSE IF ~st.ok THEN [ok |-> FALSE, err |-> "commit", inv |-> inv, log |-> log]
        ELSE [ok |-> TRUE, err |-> "none", inv |-> st.inv, log |-> st.log]

\* ------------------------------------------------------ request shapes
\* One item row of the order form: a material and a quantity per standard
\* length (qty96, qty120, qty144).
QtyOf(item, len) == item.qty[len]

RECURSIVE SumQty(_, _)
SumQty(q, i) ==
    IF i > Len(STANDARD_LENGTHS) THEN 0
    ELSE q[STANDARD_LENGTHS[i]] + SumQty(q, i + 1)

RowTotal(q) == SumQty(q, 1)

\* The rows the forms submit: quantities on the first MaxLengths standard
\* lengths only, at most MaxQty sheets per row.
FormLengths ==
    {STANDARD_LENGTHS[i] : i \in 1..Len(STANDARD_LENGTHS)}
        \ {STANDARD_LENGTHS[i] : i \in (MaxLengths + 1)..Len(STANDARD_LENGTHS)}

Rows ==
    {[materialType |-> m, qty |-> q] :
        m \in Materials,
        q \in {v \in [Lengths -> 0..MaxQty] :
                    /\ RowTotal(v) \in 1..MaxQty
                    /\ \A len \in Lengths \ FormLengths : v[len] = 0}}

\* The (materialType, length, qty) requirements of a list of item rows in the
\* order of the nested loops `for item of items / for len of STANDARD_LENGTHS`,
\* rows with qty <= 0 skipped.
RECURSIVE LenReqs(_, _)
LenReqs(item, i) ==
    IF i > Len(STANDARD_LENGTHS) THEN <<>>
    ELSE LET len == STANDARD_LENGTHS[i]
         IN  (IF QtyOf(item, len) > 0
              THEN <<[materialType |-> item.materialType, length |-> len,
                      qty |-> QtyOf(item, len)]>>
              ELSE <<>>) \o LenReqs(item, i + 1)

RECURSIVE ItemReqs(_)
ItemReqs(items) ==
    IF items = <<>> THEN <<>>
    ELSE LenReqs(Head(items), 1) \o ItemReqs(Tail(items))

\* What the message of a shortfall error tells: the quantity asked for, the
\* number of sheets found and the key ("none", 0 where the message names none).
ShortInfo(requested, available, m, len) ==
    [requested |-> requested, available |-> available, materialType |-> m, length |-> len]

NoInfo == ShortInfo(0, 0, "none", 0)

\* What `last` records of a handler call until the caller has taken the
\* result: the handler, its argument, whether its writes were committed, the
\* error thrown and what its message tells, the ids of the sheets it selected
\* (in order) and of the sheets it returned.
Last(op, arg, ok, err, info, sel, ret) ==
    [op |-> op, arg |-> arg, ok |-> ok, err |-> err, info |-> info,
     sel |-> sel, ret |-> ret]

Idle == Last("idle", <<>>, TRUE, "none", NoInfo, <<>>, {})

Ids(sheets) == [i \in 1..Len(sheets) |-> sheets[i].id]

\* ------------------------------------------------------------------ Init
\* The material master: every material of the forms with its category.
CategoryOf(m) == "Steel"

MaterialMaster == [m \in Materials |-> [category |-> CategoryOf(m)]]

\* closeModal(): no modal is shown.
NoModal == [type |-> "null", error |-> "null"]

\* The views of the tabs.
Views == {"dashboard", "logs"}

\* useState of App: nothing marked, edit mode off, no modal, the dashboard.
InitialUi ==
    [categoriesToDelete |-> {}, isEditMode |-> FALSE, modal |-> NoModal,
     activeView |-> "dashboard"]

\* The two collections as a client's cache has them.
ViewOf(inv, log) == [inventory |-> inv, usageLog |-> log]

\* The cache of a client before its first snapshot.
NoView == ViewOf(<<>>, <<>>)

\* handleConfirmDeleteCategories is not running.
\* `cats` is categoriesToDelete, `refs` allDocRefsToDelete, `i` the index of
\* the loop, `sizes` the sizes of the batches committed so far, and `fresh`
\* tells whether the cache was current when the handler was called.
NotDeleting ==
    [running |-> FALSE, cats |-> {}, refs |-> <<>>, i |-> 0, sizes |-> <<>>,
     fresh |-> TRUE]

Init ==
    /\ units = <<>>
    /\ logs = <<>>
    /\ inventory = <<>>
    /\ usageLog = <<>>
    /\ nextUnit = 1
    /\ nextLog = 1
    /\ now = 0
    /\ lag = 0
    /\ last = Idle
    /\ materialDocs = MaterialMaster
    /\ materials = materialDocs
    /\ deleting = NotDeleting
    /\ ui = InitialUi
    /\ otherView = NoView

\* What a transaction function did: the error it threw ("none" if it ran to
\* its end), the writes it staged, the sheets it selected and returned.
PlanWith(err, info, writes, sel, ret) ==
    [err |-> err, info |-> info, writes |-> writes, sel |-> sel, ret |-> ret]

Plan(err, writes, sel, ret) == PlanWith(err, NoInfo, writes, sel, ret)

\* A handler is called when no call is pending; the client cache is then at
\* most MaxLag commits behind the store.
CanCall == last = Idle /\ lag <= MaxLag

\* The effect of a handler call: the store after its transaction, the fresh
\* document ids it consumed and the outcome handed to the caller.
Outcome(op, arg, thePlan, nUnits, nLogs) ==
    \E plan \in {thePlan} : \E r \in {RunTransaction(units, logs, plan)} :
        /\ units' = r.inv
        /\ logs' = r.log
        /\ nextUnit' = IF r.ok THEN nextUnit + nUnits ELSE nextUnit
        /\ nextLog' = IF r.ok THEN nextLog + nLogs ELSE nextLog
        /\ lag' = IF r.inv # units \/ r.log # logs THEN lag + 1 ELSE lag
        /\ last' = Last(op, arg, r.ok, r.err, plan.info, plan.sel, plan.ret)
        /\ UNCHANGED <<inventory, usageLog, now, materialDocs, materials, deleting,
                       ui, otherView>>

\* job.jobName.trim() || 'N/A'
TrimOrNA(name) == IF name = "" THEN "N/A" ELSE name

\* Item lists of a form: one or two rows.
ItemLists == {<<r>> : r \in Rows} \cup {<<r1, r2>> : r1, r2 \in Rows}

RECURSIVE TotalQty(_)
TotalQty(reqs) == IF reqs = <<>> THEN 0 ELSE Head(reqs).qty + TotalQty(Tail(reqs))

RECURSIVE JobsReqs(_)
JobsReqs(jobs) ==
    IF jobs = <<>> THEN <<>> ELSE ItemReqs(Head(jobs).items) \o JobsReqs(Tail(jobs))

\* Jobs of the use-stock form, and batches of them with at most MaxRows (two)
\* item rows in all: one job with one or two rows, or two jobs with one row each.
UseJob(its) == [jobName |-> "J1", customer |-> "ACME", items |-> its]

UseBatches ==
    {<<UseJob(its)>> : its \in ItemLists}
        \cup {<<UseJob(<<r1>>), UseJob(<<r2>>)>> : r1, r2 \in Rows}

\* Jobs of the order form: one job, or two jobs, with one item row each.
OrderJob(st, r) ==
    [jobName |-> "J1", supplier |-> "Ryerson", status |-> st, items |-> <<r>>]

OrderStatuses == {"Ordered", "On Hand"}

OrderBatches ==
    {<<OrderJob(st, r)>> : st \in OrderStatuses, r \in Rows}
        \cup {<<OrderJob(st1, r1), OrderJob(st2, r2)>> :
                st1, st2 \in OrderStatuses, r1, r2 \in Rows}

\* ------------------------------------------------------ the client cache
\* `inventory` as the array the handlers filter.
InventoryArray(inv) ==
    LET ids == Enumerate(DOMAIN inv)
    IN  [i \in 1..Len(ids) |-> Sheet(inv, ids[i])]

\* A sort that puts a sheet before the sheets of the same createdAt already
\* placed (not stable).
RECURSIVE InsertBeforeTies(_, _)
InsertBeforeTies(s, x) ==
    IF s = <<>> THEN <<x>>
    ELSE IF Head(s).createdAt < x.createdAt
         THEN <<Head(s)>> \o InsertBeforeTies(Tail(s), x)
         ELSE <<x>> \o s

\* The array left in the order in which the cache lists it.
EnumerationOrder(s) == s

\* Array.prototype.sort((a, b) => new Date(a.createdAt) - new Date(b.createdAt)):
\* stable, ascending.
RECURSIVE InsertByCreatedAt(_, _)
InsertByCreatedAt(s, x) ==
    IF s = <<>> THEN <<x>>
    ELSE IF Head(s).createdAt <= x.createdAt
         THEN <<Head(s)>> \o InsertByCreatedAt(Tail(s), x)
         ELSE <<x>> \o s

RECURSIVE SortByCreatedAt(_)
SortByCreatedAt(s) ==
    IF s = <<>> THEN <<>>
    ELSE InsertByCreatedAt(SortByCreatedAt(SubSeq(s, 1, Len(s) - 1)), s[Len(s)])

\* A filter that ignores the length of the sheet.
IsOnHandAnyLength(i, m, len) == i.materialType = m /\ i.status = "On Hand"

IsOnHandAt(i, m, len) ==
    i.materialType = m /\ i.length = len /\ i.status = "On Hand"

\* inventory.filter(i => materialType, length, status === 'On Hand').sort(createdAt)
OnHandSheets(inv, m, len) ==
    SortByCreatedAt(SelectSeq(InventoryArray(inv), LAMBDA i : IsOnHandAt(i, m, len)))

\* The snapshot of a sheet kept in a record's details.
Detail(sheet) ==
    [id |-> sheet.id, materialType |-> sheet.materialType, length |-> sheet.length]

\* The synthetic descriptors of a Scheduled record: qty entries per requirement.
RECURSIVE Synthetic(_)
Synthetic(reqs) ==
    IF reqs = <<>> THEN <<>>
    ELSE [i \in 1..Head(reqs).qty |->
            [id |-> NoId, materialType |-> Head(reqs).materialType,
             length |-> Head(reqs).length]] \o Synthetic(Tail(reqs))

\* ------------------------------------------------- handleAddOrEditOrder
\* The orders shown in the incoming log: the cached units grouped by
\* createdAt, job and supplier.
GroupKey(i) == <<i.createdAt, i.job, i.supplier>>

IncomingItems(inv) ==
    LET arr == SelectSeq(InventoryArray(inv), LAMBDA i : i.supplier # "MODIFICATION")
    IN  {[dateOrdered |-> k[1],
          details |-> SelectSeq(arr, LAMBDA i : GroupKey(i) = k)] :
            k \in {GroupKey(arr[n]) : n \in 1..Len(arr)}}

\* Stock data that stamps an arrival date whatever the job's status.
NewStockWithArrival(job, req, createdAt) ==
    [materialType |-> req.materialType, length |-> req.length,
     supplier |-> job.supplier, createdAt |-> createdAt,
     job |-> TrimOrNA(job.jobName), status |-> job.status,
     arrivalDate |-> "set", dateReceived |-> "null",
     usageLogId |-> NoId, jobNameUsed |-> "null", customerUsed |-> "null",
     usedAt |-> "null"]

NewStock(job, req, createdAt) ==
    [materialType |-> req.materialType, length |-> req.length,
     supplier |-> job.supplier, createdAt |-> createdAt,
     job |-> TrimOrNA(job.jobName), status |-> job.status,
     arrivalDate |-> IF job.status = "Ordered" THEN "set" ELSE "null",
     dateReceived |-> "null",
     usageLogId |-> NoId, jobNameUsed |-> "null", customerUsed |-> "null",
     usedAt |-> "null"]

\* transaction.set(doc(inventoryCollectionRef), ...) qty times for one requirement.
RECURSIVE OrderWrites(_, _, _, _)
OrderWrites(jobs, reqs, createdAt, id) ==
    IF jobs = <<>> THEN <<>>
    ELSE IF reqs = <<>>
         THEN IF Len(jobs) = 1 THEN <<>>
              ELSE OrderWrites(Tail(jobs), ItemReqs(jobs[2].items), createdAt, id)
         ELSE LET r == Head(reqs)
              IN  [i \in 1..r.qty |->
                      Set("inventory", id + i - 1, NewStock(Head(jobs), r, createdAt))]
                  \o OrderWrites(jobs, Tail(reqs), createdAt, id + r.qty)

\* An edit that deletes the group and writes no replacement.
DeleteWithoutReplacePlan(jobs, originalOrderGroup, isEditing, id, time) ==
    IF isEditing
    THEN Plan("none",
              [i \in 1..Len(originalOrderGroup.details) |->
                    Delete("inventory", originalOrderGroup.details[i].id)],
              <<>>, {})
    ELSE Plan("none", OrderWrites(jobs, ItemReqs(jobs[1].items), time, id), <<>>, {})

\* An edit that stamps the replacements with the time of the edit.
StampNowPlan(jobs, originalOrderGroup, isEditing, id, time) ==
    LET deletes == IF isEditing
                   THEN [i \in 1..Len(originalOrderGroup.details) |->
                            Delete("inventory", originalOrderGroup.details[i].id)]
                   ELSE <<>>
    IN  Plan("none",
             deletes \o OrderWrites(jobs, ItemReqs(jobs[1].items), time, id),
             <<>>, {})

AddOrEditOrderPlan(jobs, originalOrderGroup, isEditing, id, time) ==
    LET deletes == IF isEditing
                   THEN [i \in 1..Len(originalOrderGroup.details) |->
                            Delete("inventory", originalOrderGroup.details[i].id)]
                   ELSE <<>>
        createdAt == IF isEditing THEN originalOrderGroup.dateOrdered ELSE time
    IN  Plan("none",
             deletes \o OrderWrites(jobs, ItemReqs(jobs[1].items), createdAt, id),
             <<>>, {})

NoGroup == [dateOrdered |-> 0, details |-> <<>>]

HandleAddOrEditOrder(jobs, originalOrderGroup, isEditing) ==
    /\ nextUnit + TotalQty(JobsReqs(jobs)) - 1 <= MaxUnits
    /\ Outcome(IF isEditing THEN "EditOrder" ELSE "AddOrder",
               [jobs |-> jobs, group |-> originalOrderGroup],
               AddOrEditOrderPlan(jobs, originalOrderGroup, isEditing, nextUnit, now),
               TotalQty(JobsReqs(jobs)), 0)

\* At most MaxUnits units are ever created: no order is placed once they are.
AddOrder ==
    /\ CanCall
    /\ nextUnit <= MaxUnits
    /\ \E jobs \in OrderBatches : HandleAddOrEditOrder(jobs, NoGroup, FALSE)

EditOrder ==
    /\ CanCall
    /\ nextUnit <= MaxUnits
    /\ \E g \in IncomingItems(inventory), jobs \in OrderBatches :
            HandleAddOrEditOrder(jobs, g, TRUE)

\* ---------------------------------------------------------- handleUseStock
UsedFields(logId, jobName, customer) ==
    [status |-> "Used", usageLogId |-> logId, jobNameUsed |-> jobName,
     customerUsed |-> customer, usedAt |-> "set"]

MarkUsed(sheets, logId, jobName, customer) ==
    [i \in 1..Len(sheets) |->
        Update("inventory", sheets[i].id, UsedFields(logId, jobName, customer))]

\* The loops over job.items and STANDARD_LENGTHS of the immediate branch, for
\* one job.  acc = [err, info, writes, used]: the error thrown and what its
\* message tells, the writes staged
\* and usedItemsForLog so far.
RECURSIVE UseReqs(_, _, _, _, _)
UseReqs(inv, job, logId, reqs, acc) ==
    IF reqs = <<>> \/ acc.err # "none" THEN acc
    ELSE LET r == Head(reqs)
             matchingSheets == OnHandSheets(inv, r.materialType, r.length)
             sheetsToUse == Take(matchingSheets, r.qty)
         IN  IF Len(matchingSheets) < r.qty
             THEN [acc EXCEPT !.err = "NotEnoughStock",
                              !.info = ShortInfo(r.qty, Len(matchingSheets),
                                                 r.materialType, r.length)]
             ELSE UseReqs(inv, job, logId, Tail(reqs),
                    [acc EXCEPT
                        !.writes = @ \o MarkUsed(sheetsToUse, logId,
                                        TrimOrNA(job.jobName), job.customer),
                        !.used = @ \o sheetsToUse])

CompletedLog(job, used) ==
    [job |-> TrimOrNA(job.jobName), customer |-> job.customer,
     status |-> "Completed", fulfilledAt |-> "null",
     details |-> [i \in 1..Len(used) |-> Detail(used[i])], qty |-> 0 - Len(used)]

ScheduledLog(job, reqs) ==
    [job |-> TrimOrNA(job.jobName), customer |-> job.customer,
     status |-> "Scheduled", fulfilledAt |-> "null",
     details |-> Synthetic(reqs), qty |-> 0 - TotalQty(reqs)]

\* `for (const job of jobs)`.  acc = [err, info, writes, sel, made]: sel the ids of
\* the sheets chosen so far, made the number of records staged so far.
RECURSIVE UseStockJobs(_, _, _, _, _)
UseStockJobs(inv, jobs, isScheduled, logId, acc) ==
    IF jobs = <<>> \/ acc.err # "none" THEN acc
    ELSE LET job == Head(jobs)
             reqs == ItemReqs(job.items)
         IN  IF isScheduled
             THEN UseStockJobs(inv, Tail(jobs), isScheduled, logId,
                    IF reqs = <<>> THEN acc
                    ELSE [acc EXCEPT
                            !.writes = @ \o <<Set("usage_logs", logId + acc.made,
                                                  ScheduledLog(job, reqs))>>,
                            !.made = @ + 1])
             ELSE LET r == UseReqs(inv, job, logId + acc.made, reqs,
                                   [err |-> "none", info |-> NoInfo,
                                    writes |-> <<>>, used |-> <<>>])
                      sel == acc.sel \o Ids(r.used)
                  IN  UseStockJobs(inv, Tail(jobs), isScheduled, logId,
                        IF r.err # "none" \/ r.used = <<>>
                        THEN [acc EXCEPT !.err = r.err, !.info = r.info,
                                         !.writes = @ \o r.writes, !.sel = sel]
                        ELSE [acc EXCEPT
                                !.writes = @ \o r.writes
                                    \o <<Set("usage_logs", logId + acc.made,
                                             CompletedLog(job, r.used))>>,
                                !.sel = sel, !.made = @ + 1])

\* A handler that allocates whether or not the use is scheduled.
AllocatingPlan(inv, jobs, isScheduled, logId) ==
    UseStockJobs(inv, jobs, FALSE, logId,
                 [err |-> "none", info |-> NoInfo, writes |-> <<>>, sel |-> <<>>,
                  ret |-> {}, made |-> 0])

UseStockPlan(inv, jobs, isScheduled, logId) ==
    UseStockJobs(inv, jobs, isScheduled, logId,
                 [err |-> "none", info |-> NoInfo, writes |-> <<>>, sel |-> <<>>,
                  ret |-> {}, made |-> 0])

HandleUseStock(jobs, isScheduled) ==
    /\ nextLog + Len(jobs) - 1 <= MaxLogs
    /\ \E plan \in {UseStockPlan(inventory, jobs, isScheduled, nextLog)} :
        Outcome(IF isScheduled THEN "ScheduleStock" ELSE "UseStock",
                jobs, plan, 0, plan.made)

UseStockNow ==
    /\ CanCall
    /\ \E jobs \in UseBatches : HandleUseStock(jobs, FALSE)

UseStockScheduled ==
    /\ CanCall
    /\ \E jobs \in UseBatches : HandleUseStock(jobs, TRUE)

\* ------------------------------------------- UseStockModal.handleSubmit
\* inventory.filter(i => materialType, length, status !== 'Ordered').sort(createdAt)
NotOrderedSheets(inv, m, len) ==
    SortByCreatedAt(SelectSeq(InventoryArray(inv),
        LAMBDA i : i.materialType = m /\ i.length = len /\ i.status # "Ordered"))

\* const { id, ...rest } = sheet; usedItemsForLog.push({ ...rest, qty: 1 })
ModalDetail(sheet) == [Detail(sheet) EXCEPT !.id = NoId]

\* The record of the modal has no status field.
ModalLog(job, used) ==
    [job |-> job.jobName, customer |-> job.customer,
     status |-> "undefined", fulfilledAt |-> "null",
     details |-> [i \in 1..Len(used) |-> ModalDetail(used[i])], qty |-> 0 - Len(used)]

RECURSIVE ModalReqs(_, _, _)
ModalReqs(inv, reqs, acc) ==
    IF reqs = <<>> \/ acc.err # "none" THEN acc
    ELSE LET r == Head(reqs)
             matchingSheets == NotOrderedSheets(inv, r.materialType, r.length)
             sheetsToUse == Take(matchingSheets, r.qty)
         IN  IF Len(matchingSheets) < r.qty
             THEN [acc EXCEPT !.err = "NotEnoughStock",
                              !.info = ShortInfo(r.qty, Len(matchingSheets),
                                                 r.materialType, r.length)]
             ELSE ModalReqs(inv, Tail(reqs),
                    [acc EXCEPT
                        !.writes = @ \o [i \in 1..Len(sheetsToUse) |->
                                            Delete("inventory", sheetsToUse[i].id)],
                        !.used = @ \o sheetsToUse])

RECURSIVE ModalJobs(_, _, _, _)
ModalJobs(inv, jobs, logId, acc) ==
    IF jobs = <<>> \/ acc.err # "none" THEN acc
    ELSE LET job == Head(jobs)
             r == ModalReqs(inv, ItemReqs(job.items),
                            [err |-> "none", info |-> NoInfo,
                             writes |-> <<>>, used |-> <<>>])
             sel == acc.sel \o Ids(r.used)
         IN  ModalJobs(inv, Tail(jobs), logId,
                IF r.err # "none" \/ r.used = <<>>
                THEN [acc EXCEPT !.err = r.err, !.info = r.info,
                                 !.writes = @ \o r.writes, !.sel = sel]
                ELSE [acc EXCEPT
                        !.writes = @ \o r.writes
                            \o <<Set("usage_logs", logId + acc.made, ModalLog(job, r.used))>>,
                        !.sel = sel, !.made = @ + 1])

ModalPlan(inv, jobs, logId) ==
    ModalJobs(inv, jobs, logId,
              [err |-> "none", info |-> NoInfo, writes |-> <<>>, sel |-> <<>>,
               ret |-> {}, made |-> 0])

\* customer.trim(), on the customers the forms are filled with.
Trim(customer) == IF customer \in {"", " "} THEN "" ELSE customer

\* jobs.some(j => !j.customer.trim())
MissingCustomer(jobs) == \E i \in 1..Len(jobs) : Trim(jobs[i].customer) = ""

UseStockModalSubmit(jobs) ==
    /\ nextLog + Len(jobs) - 1 <= MaxLogs
    /\ \E plan \in {IF MissingCustomer(jobs)
                    THEN [err |-> "Validation", info |-> NoInfo, writes |-> <<>>,
                          sel |-> <<>>, ret |-> {}, made |-> 0]
                    ELSE ModalPlan(inventory, jobs, nextLog)} :
        Outcome("UseStockModal", jobs, plan, 0, plan.made)

UseStockModal ==
    /\ CanCall
    /\ \E jobs \in UseBatches : UseStockModalSubmit(jobs)

\* ------------------------------------------- handleFulfillScheduledLog
\* Object.entries(itemsNeeded): the (materialType, length) keys of the details
\* in order of first occurrence, each with its count.
RECURSIVE Tally(_, _)
Tally(details, seen) ==
    IF details = <<>> THEN <<>>
    ELSE LET d == Head(details)
             key == <<d.materialType, d.length>>
         IN  IF key \in seen THEN Tally(Tail(details), seen)
             ELSE <<[materialType |-> d.materialType, length |-> d.length,
                     qty |-> Len(SelectSeq(details,
                                LAMBDA e : <<e.materialType, e.length>> = key))]>>
                  \o Tally(Tail(details), seen \cup {key})

\* acc = [err, info, toUpdate]
RECURSIVE FulfillReqs(_, _, _)
FulfillReqs(inv, reqs, acc) ==
    IF reqs = <<>> \/ acc.err # "none" THEN acc
    ELSE LET r == Head(reqs)
             availableSheets == OnHandSheets(inv, r.materialType, r.length)
         IN  IF Len(availableSheets) < r.qty
             THEN [acc EXCEPT !.err = "NotEnoughStock",
                              !.info = ShortInfo(r.qty, Len(availableSheets),
                                                 r.materialType, r.length)]
             ELSE FulfillReqs(inv, Tail(reqs),
                    [acc EXCEPT !.toUpdate = @ \o Take(availableSheets, r.qty)])

FulfillPlan(inv, logToFulfill) ==
    LET a == FulfillReqs(inv, Tally(logToFulfill.details, {}),
                         [err |-> "none", info |-> NoInfo, toUpdate |-> <<>>])
        inventoryToUpdate == a.toUpdate
    IN  PlanWith(a.err, a.info,
             IF a.err # "none" THEN <<>>
             ELSE MarkUsed(inventoryToUpdate, logToFulfill.id,
                           logToFulfill.job, logToFulfill.customer)
                  \o <<Update("usage_logs", logToFulfill.id,
                         [status |-> "Completed",
                          details |-> [i \in 1..Len(inventoryToUpdate) |->
                                         Detail(inventoryToUpdate[i])],
                          fulfilledAt |-> "set"])>>,
             Ids(inventoryToUpdate), {})

HandleFulfillScheduledLog(logToFulfill) ==
    Outcome("Fulfill", logToFulfill, FulfillPlan(inventory, logToFulfill), 0, 0)

\* The records the log view offers for fulfilment are the Scheduled ones.
FulfillScheduledLog ==
    /\ CanCall
    /\ \E id \in DOMAIN usageLog :
            /\ usageLog[id].status = "Scheduled"
            /\ HandleFulfillScheduledLog(Sheet(usageLog, id))

\* ----------------------------------------------- handleEditOutgoingLog
CountAt(details, m, len) ==
    Len(SelectSeq(details, LAMBDA d : d.materialType = m /\ d.length = len))

RequestedAt(reqs, m, len) ==
    TotalQty(SelectSeq(reqs, LAMBDA r : r.materialType = m /\ r.length = len))

\* netChange[key] = count(originalLog.details at key) - requested(newLogData at key)
NetChange(details, reqs, m, len) == CountAt(details, m, len) - RequestedAt(reqs, m, len)

CurrentStock(inv, m, len) == Len(OnHandSheets(inv, m, len))

\* The pre-check: some key needs more than it had and the cache does not
\* show that many sheets On Hand.
PreCheckFails(inv, details, reqs) ==
    \E m \in Materials, len \in Lengths :
        /\ NetChange(details, reqs, m, len) < 0
        /\ CurrentStock(inv, m, len) < 0 - NetChange(details, reqs, m, len)

ReturnedFields ==
    [status |-> "On Hand", usageLogId |-> NoId, jobNameUsed |-> "null",
     customerUsed |-> "null", usedAt |-> "null"]

\* A re-allocation whose pool keeps the sheets of the original details.
RECURSIVE ReallocAnySheet(_, _, _, _, _)
ReallocAnySheet(inv, originalItemIds, log, reqs, acc) ==
    IF reqs = <<>> \/ acc.err # "none" THEN acc
    ELSE LET r == Head(reqs)
             matchingSheets == OnHandSheets(inv, r.materialType, r.length)
             sheetsToUse == Take(matchingSheets, r.qty)
         IN  IF Len(sheetsToUse) < r.qty
             THEN [acc EXCEPT !.err = "ConcurrencyError"]
             ELSE ReallocAnySheet(inv, originalItemIds, log, Tail(reqs),
                    [acc EXCEPT
                        !.writes = @ \o MarkUsed(sheetsToUse, log.id, log.job, log.customer),
                        !.used = @ \o sheetsToUse])

\* The re-allocation loops.  acc = [err, writes, used]
RECURSIVE ReallocReqs(_, _, _, _, _)
ReallocReqs(inv, originalItemIds, log, reqs, acc) ==
    IF reqs = <<>> \/ acc.err # "none" THEN acc
    ELSE LET r == Head(reqs)
             matchingSheets ==
                 SelectSeq(OnHandSheets(inv, r.materialType, r.length),
                           LAMBDA i : i.id \notin originalItemIds)
             sheetsToUse == Take(matchingSheets, r.qty)
         IN  IF Len(sheetsToUse) < r.qty
             THEN [acc EXCEPT !.err = "ConcurrencyError"]
             ELSE ReallocReqs(inv, originalItemIds, log, Tail(reqs),
                    [acc EXCEPT
                        !.writes = @ \o MarkUsed(sheetsToUse, log.id, log.job, log.customer),
                        !.used = @ \o sheetsToUse])

\* The transaction of the Completed branch.  The writes staged before a
\* throw stay in the plan; RunTransaction discards them.
EditCompletedPlan(inv, originalLog, newLogData) ==
    LET reqs == ItemReqs(newLogData.items)
        originalItemIds == {originalLog.details[i].id : i \in 1..Len(originalLog.details)}
        itemsToReturn == SelectSeq(InventoryArray(inv), LAMBDA i : i.id \in originalItemIds)
        returns == [i \in 1..Len(itemsToReturn) |->
                        Update("inventory", itemsToReturn[i].id, ReturnedFields)]
    IN  IF PreCheckFails(inv, originalLog.details, reqs)
        THEN Plan("NotEnoughStock", <<>>, <<>>, {})
        ELSE LET a == ReallocReqs(inv, originalItemIds,
                        [id |-> originalLog.id, job |-> newLogData.jobName,
                         customer |-> newLogData.customer],
                        reqs, [err |-> "none", writes |-> <<>>, used |-> <<>>])
             IN  Plan(a.err,
                      returns \o a.writes
                        \o (IF a.err # "none" THEN <<>>
                            ELSE <<Update("usage_logs", originalLog.id,
                                    [job |-> newLogData.jobName,
                                     customer |-> newLogData.customer,
                                     details |-> [i \in 1..Len(a.used) |->
                                                    Detail(a.used[i])],
                                     qty |-> 0 - Len(a.used)])>>),
                      Ids(a.used), Range(Ids(itemsToReturn)))

\* An edit that treats a Scheduled record as a Completed one.
EditAsCompletedPlan(originalLog, newLogData) ==
    EditCompletedPlan(inventory, originalLog, newLogData)

\* The Scheduled branch: one updateDoc of the record.
EditScheduledPlan(originalLog, newLogData) ==
    LET reqs == ItemReqs(newLogData.items)
    IN  Plan("none",
             <<Update("usage_logs", originalLog.id,
                 [job |-> TrimOrNA(newLogData.jobName),
                  customer |-> newLogData.customer,
                  details |-> Synthetic(reqs),
                  qty |-> 0 - TotalQty(reqs)])>>,
             <<>>, {})

HandleEditOutgoingLog(originalLog, newLogData) ==
    Outcome(IF originalLog.status = "Scheduled" THEN "EditScheduled" ELSE "EditCompleted",
            [log |-> originalLog, data |-> newLogData],
            IF originalLog.status = "Scheduled"
            THEN EditScheduledPlan(originalLog, newLogData)
            ELSE EditCompletedPlan(inventory, originalLog, newLogData),
            0, 0)

\* The edits of the edit-log form: a new job name and one or two item rows.
EditData == {[jobName |-> "J2", customer |-> "ACME", items |-> its] : its \in ItemLists}

EditOutgoingLog ==
    /\ CanCall
    /\ \E id \in DOMAIN usageLog, newLogData \in EditData :
            HandleEditOutgoingLog(Sheet(usageLog, id), newLogData)

\* ------------------------- handleDeleteInventoryGroup, handleDeleteLog
DeleteGroupPlan(group) ==
    Plan("none",
         [i \in 1..Len(group.details) |-> Delete("inventory", group.details[i].id)],
         <<>>, {})

HandleDeleteInventoryGroup(group) ==
    /\ group.details # <<>>
    /\ Outcome("DeleteGroup", group, DeleteGroupPlan(group), 0, 0)

DeleteInventoryGroup ==
    /\ CanCall
    /\ \E g \in IncomingItems(inventory) : HandleDeleteInventoryGroup(g)

HandleDeleteLog(logId) ==
    Outcome("DeleteLog", logId,
            Plan("none", <<Delete("usage_logs", logId)>>, <<>>, {}), 0, 0)

DeleteLog ==
    /\ CanCall
    /\ \E id \in DOMAIN usageLog : HandleDeleteLog(id)

\* --------------------------------------------------- handleReceiveOrder
\* A receipt that sets the status and stamps no date.
ReceiveWithoutDatePlan(orderGroup) ==
    LET items == SelectSeq(orderGroup.details, LAMBDA item : item.id # NoId)
    IN  Plan("none",
             [i \in 1..Len(items) |->
                Update("inventory", items[i].id, [status |-> "On Hand"])],
             <<>>, {})

ReceivePlan(orderGroup) ==
    LET items == SelectSeq(orderGroup.details, LAMBDA item : item.id # NoId)
    IN  Plan("none",
             [i \in 1..Len(items) |->
                Update("inventory", items[i].id,
                       [status |-> "On Hand", dateReceived |-> "set"])],
             <<>>, {})

HandleReceiveOrder(orderGroup) ==
    Outcome("ReceiveOrder", orderGroup, ReceivePlan(orderGroup), 0, 0)

ReceiveOrder ==
    /\ CanCall
    /\ \E g \in IncomingItems(inventory) : HandleReceiveOrder(g)

\* ------------------------------------------------------ handleStockEdit
\* inventorySummary[materialType][length]: the On Hand count of the cache.
InventorySummary(inv, m, len) == CurrentStock(inv, m, len)

ManualStock(m, len, time) ==
    [materialType |-> m, length |-> len, supplier |-> "Manual Edit",
     createdAt |-> time, job |-> "MODIFICATION: ADD", status |-> "On Hand",
     arrivalDate |-> "null", dateReceived |-> "set",
     usageLogId |-> NoId, jobNameUsed |-> "null", customerUsed |-> "null",
     usedAt |-> "null"]

StockEditPlan(inv, m, len, diff, id, time) ==
    IF diff > 0
    THEN Plan("none",
              [i \in 1..diff |-> Set("inventory", id + i - 1, ManualStock(m, len, time))],
              <<>>, {})
    ELSE LET sheetsToRemove == 0 - diff
             availableSheets == OnHandSheets(inv, m, len)
             sheetsToDelete == Take(availableSheets, sheetsToRemove)
         IN  IF Len(availableSheets) < sheetsToRemove
             THEN PlanWith("NotEnoughStock",
                           ShortInfo(sheetsToRemove, Len(availableSheets), "none", 0),
                           <<>>, <<>>, {})
             ELSE Plan("none",
                       [i \in 1..Len(sheetsToDelete) |->
                            Delete("inventory", sheetsToDelete[i].id)],
                       Ids(sheetsToDelete), {})

\* `if (diff === 0) return;`: the call resolves without a transaction.
HandleStockEdit(m, len, newQuantity) ==
    \E diff \in {newQuantity - InventorySummary(inventory, m, len)} :
        /\ diff > 0 => nextUnit + diff - 1 <= MaxUnits
        /\ Outcome("StockEdit",
                   [materialType |-> m, length |-> len, newQuantity |-> newQuantity],
                   IF diff = 0 THEN Plan("none", <<>>, <<>>, {})
                   ELSE StockEditPlan(inventory, m, len, diff, nextUnit, now),
                   IF diff > 0 THEN diff ELSE 0, 0)

StockEdit ==
    /\ CanCall
    /\ \E m \in Materials, len \in FormLengths, newQuantity \in 0..MaxQty :
            HandleStockEdit(m, len, newQuantity)

\* ------------------------------------------------------ the environment
\* onSnapshot: the client cache catches up with the store.
OnSnapshot ==
    /\ last = Idle
    /\ lag > 0
    /\ inventory' = units
    /\ usageLog' = logs
    /\ materials' = materialDocs
    /\ lag' = 0
    /\ UNCHANGED <<units, logs, nextUnit, nextLog, now, last, materialDocs, deleting,
                   ui, otherView>>

\* The caller takes the handler's result (closes the form, or shows the error).
HandlerReturns ==
    /\ last # Idle
    /\ last' = Idle
    /\ UNCHANGED <<units, logs, inventory, usageLog, nextUnit, nextLog, now, lag,
                   materialDocs, materials, deleting, ui, otherView>>

Tick ==
    /\ last = Idle
    /\ now < MaxTime
    /\ now' = now + 1
    /\ UNCHANGED <<units, logs, inventory, usageLog, nextUnit, nextLog, lag, last,
                   materialDocs, materials, deleting, ui, otherView>>

Next ==
    \/ Tick
    \/ OnSnapshot
    \/ HandlerReturns
    \/ AddOrder
    \/ EditOrder
    \/ UseStockNow
    \/ UseStockScheduled
    \/ UseStockModal
    \/ FulfillScheduledLog
    \/ EditOutgoingLog
    \/ DeleteInventoryGroup
    \/ DeleteLog
    \/ ReceiveOrder
    \/ StockEdit

Spec == Init /\ [][Next]_vars

\* ------------------------------------------------- focused specifications
\* The behaviours in which the client receives stock and uses it, through the
\* hook and through the use-stock modal.
NextUseStock ==
    \/ OnSnapshot
    \/ HandlerReturns
    \/ AddOrder
    \/ UseStockNow
    \/ UseStockModal

SpecUseStock == Init /\ [][NextUseStock]_vars

\* The behaviours in which the client receives stock, uses it and edits the
\* records of the outgoing log.
NextEditLog ==
    \/ OnSnapshot
    \/ HandlerReturns
    \/ AddOrder
    \/ UseStockNow
    \/ EditOutgoingLog

SpecEditLog == Init /\ [][NextEditLog]_vars

\* The behaviours in which the client works on the incoming log (orders are
\* added, edited, received, deleted) and on the records of stock it used.
NextOrders ==
    \/ OnSnapshot
    \/ HandlerReturns
    \/ AddOrder
    \/ EditOrder
    \/ UseStockNow
    \/ DeleteInventoryGroup
    \/ DeleteLog
    \/ ReceiveOrder

SpecOrders == Init /\ [][NextOrders]_vars

\* The behaviours in which orders are placed and edited as time passes.
NextOrderTime ==
    \/ Tick
    \/ OnSnapshot
    \/ HandlerReturns
    \/ AddOrder
    \/ EditOrder

SpecOrderTime == Init /\ [][NextOrderTime]_vars

\* ------------------------------------------------------------ properties
\* Some requirement asks for more units than inv has On Hand at its key.
Short(inv, reqs) ==
    \E i \in 1..Len(reqs) :
        reqs[i].qty > CurrentStock(inv, reqs[i].materialType, reqs[i].length)

\* C1: all-or-nothing use.  An immediate use-stock batch in which some
\* requirement asks for more units than the store has On Hand at its key
\* fails and leaves the store unchanged: no unit changes, no record is made.
AllOrNothingUse ==
    [][(last'.op = "UseStock" /\ Short(units, JobsReqs(last'.arg)))
        => (~last'.ok /\ units' = units /\ logs' = logs)]_vars

\* The units that a step moves from On Hand to Used.
NewlyUsed ==
    {id \in DOMAIN units \cap DOMAIN units' :
        units[id].status = "On Hand" /\ units'[id].status = "Used"}

\* C2: no double allocation inside one batch.  When an immediate use-stock
\* batch commits, no unit is selected twice, and the number of units that go
\* On Hand -> Used is the sum of the requested quantities of the batch.
NoDoubleAllocation ==
    [][(last'.op = "UseStock" /\ last'.ok)
        => /\ \A i, j \in 1..Len(last'.sel) : i # j => last'.sel[i] # last'.sel[j]
           /\ Cardinality(NewlyUsed) = TotalQty(JobsReqs(last'.arg))]_vars

\* C3: no lost-update race on consumption.  A consuming operation that
\* commits has read availability from the store: every unit it consumes is
\* On Hand in the store it commits to, so a unit an earlier commit consumed
\* is not consumed again.
NoLostUpdateRace ==
    [][(last'.op \in {"UseStock", "Fulfill", "EditCompleted"} /\ last'.ok)
        => \A i \in 1..Len(last'.sel) :
              /\ last'.sel[i] \in DOMAIN units
              /\ units[last'.sel[i]].status = "On Hand"]_vars

\* The units of inv at a key, whatever their status.
UnitsAt(inv, m, len) ==
    {id \in DOMAIN inv : inv[id].materialType = m /\ inv[id].length = len}

\* The units of inv that are Used and refer to record logId.
UsedBy(inv, logId) ==
    {id \in DOMAIN inv : inv[id].status = "Used" /\ inv[id].usageLogId = logId}

\* The record of the store consumed exactly two units of (m, len), both still
\* Used and referring to it, no other unit of the key is On Hand, the client's
\* view is current, and the edit asks for one unit of that key.
TwoToOne(call, m, len) ==
    /\ inventory = units
    /\ usageLog = logs
    /\ call.log.id \in DOMAIN logs
    /\ logs[call.log.id].status = "Completed"
    /\ Len(logs[call.log.id].details) = 2
    /\ {logs[call.log.id].details[k].id : k \in 1..2} = UsedBy(units, call.log.id)
    /\ Cardinality(UsedBy(units, call.log.id)) = 2
    /\ UsedBy(units, call.log.id) \subseteq UnitsAt(units, m, len)
    /\ CurrentStock(units, m, len) = 0
    /\ ItemReqs(call.data.items) = <<[materialType |-> m, length |-> len, qty |-> 1]>>

\* C4: edit reconciliation conservation.  Editing a Completed record that
\* consumed 2 units of one key to request 1 unit of that key, with no other
\* unit of the key On Hand, ends with exactly 1 unit Used referring to the
\* record and exactly 1 unit On Hand; and no edit of a Completed record
\* changes the number of units at any key.
EditReconciliationConservation ==
    [][last'.op = "EditCompleted"
        => \A m \in Materials, len \in Lengths :
              /\ Cardinality(UnitsAt(units', m, len)) = Cardinality(UnitsAt(units, m, len))
              /\ TwoToOne(last'.arg, m, len)
                    => /\ Cardinality(UsedBy(units', last'.arg.log.id)) = 1
                       /\ CurrentStock(units', m, len) = 1]_vars

\* C5: edit rollback.  When a requirement cannot be satisfied in the
\* re-allocate phase of an edit of a Completed record, the store is left as
\* it was (the returns staged before the throw included: units and records
\* are unchanged), and the error is the edit-reconciliation one, which the
\* pre-check never raises: a failing pre-check reports the plain shortfall.
EditRollback ==
    [][last'.op = "EditCompleted"
        => /\ last'.err = "ConcurrencyError"
                => /\ units' = units
                   /\ logs' = logs
                   /\ ~PreCheckFails(inventory, last'.arg.log.details,
                                     ItemReqs(last'.arg.data.items))
           /\ PreCheckFails(inventory, last'.arg.log.details,
                            ItemReqs(last'.arg.data.items))
                => last'.err = "NotEnoughStock"]_vars

\* An edit has failed in its re-allocate phase after it had staged the return
\* of units that are Used by the record in the store.
EditRolledBack ==
    /\ last.op = "EditCompleted"
    /\ last.err = "ConcurrencyError"
    /\ last.ret # {}
    /\ last.ret \subseteq UsedBy(units, last.arg.log.id)

\* Record logId of the store lists unit id in its details.
Lists(logId, id) ==
    \E k \in 1..Len(logs[logId].details) : logs[logId].details[k].id = id

\* C6: back-reference invariant.  In every reachable state a unit has a
\* usageLogId if and only if it is Used and its id is in the details of the
\* existing record with that id.
BackReference ==
    \A id \in DOMAIN units :
        units[id].usageLogId # NoId
            <=> /\ units[id].status = "Used"
                /\ units[id].usageLogId \in DOMAIN logs
                /\ Lists(units[id].usageLogId, id)

\* Unit id is Used for a Completed record of the store that lists it.
ListedInCompleted(id) ==
    /\ id \in DOMAIN units
    /\ units[id].status = "Used"
    /\ units[id].usageLogId \in DOMAIN logs
    /\ logs[units[id].usageLogId].status = "Completed"
    /\ Lists(units[id].usageLogId, id)

\* C7: referential integrity of Completed records.  The units listed in a
\* Completed record exist, Used, with usageLogId the record's id, and no
\* order edit, group deletion, manual adjustment or receive removes or
\* re-statuses a unit while a Completed record lists it.
CompletedRecordIntegrity ==
    [][last'.op \in {"EditOrder", "DeleteGroup", "StockEdit", "ReceiveOrder"}
        => \A id \in DOMAIN units :
              ListedInCompleted(id)
                => /\ id \in DOMAIN units'
                   /\ units'[id].status = "Used"
                   /\ units'[id].usageLogId = units[id].usageLogId]_vars

\* C8: unit status transitions.  In every step a unit's status changes only
\* Ordered -> On Hand, On Hand -> Used or Used -> On Hand, and Used -> On Hand
\* only in an edit of a Completed record.
StatusTransitions ==
    [][\A id \in DOMAIN units \cap DOMAIN units' :
          units'[id].status # units[id].status
            => \/ units[id].status = "Ordered" /\ units'[id].status = "On Hand"
               \/ units[id].status = "On Hand" /\ units'[id].status = "Used"
               \/ /\ units[id].status = "Used"
                  /\ units'[id].status = "On Hand"
                  /\ last'.op = "EditCompleted"]_vars

\* C9: unit lifecycle frame.  The set of unit ids changes only in an order
\* creation or edit, a manual stock adjustment or a group deletion: every
\* use of stock (hook or modal), fulfilment, record edit, receive and record
\* deletion leaves it unchanged.
UnitLifecycleFrame ==
    [][DOMAIN units' # DOMAIN units
        => last'.op \in {"AddOrder", "EditOrder", "StockEdit", "DeleteGroup"}]_vars

\* C10: immediate use consumes On Hand units only.  Every unit the immediate
\* path selects, in the hook and in the modal, has status On Hand in the
\* inventory it is selected from.
SelectsOnHandOnly ==
    [][last'.op \in {"UseStock", "UseStockModal"}
        => \A i \in 1..Len(last'.sel) :
              inventory[last'.sel[i]].status = "On Hand"]_vars

\* ------------------------------------------- immediate use
\* The jobs of a call that ask for at least one sheet.
PositiveJobs(jobs) == {i \in 1..Len(jobs) : ItemReqs(jobs[i].items) # <<>>}

\* The ids listed in the details of the records of `ids`.
DetailIds(log, ids) ==
    UNION {{log[l].details[i].id : i \in 1..Len(log[l].details)} : l \in ids}

\* C11: after a successful immediate use of stock (the hook's handler or the
\* modal's own submit), one new record exists per job that asks for a sheet;
\* each new record is Completed, its qty is minus the number of its details,
\* its details are units that are now Used and carry the record's id, job
\* and customer; the details of the new records together are the units
\* chosen; every other unit and every earlier record is unchanged.
ImmediateUsePostcondition ==
    [][(last'.op \in {"UseStock", "UseStockModal"} /\ last'.ok) =>
        LET new == DOMAIN logs' \ DOMAIN logs
            chosen == Range(last'.sel)
        IN  /\ Cardinality(new) = Cardinality(PositiveJobs(last'.arg))
            /\ \A l \in new :
                /\ logs'[l].status = "Completed"
                /\ logs'[l].qty = 0 - Len(logs'[l].details)
                /\ \A i \in 1..Len(logs'[l].details) :
                    LET id == logs'[l].details[i].id
                    IN  /\ id \in DOMAIN units'
                        /\ units'[id].status = "Used"
                        /\ units'[id].usageLogId = l
                        /\ units'[id].jobNameUsed = logs'[l].job
                        /\ units'[id].customerUsed = logs'[l].customer
            /\ DetailIds(logs', new) = chosen
            /\ \A id \in DOMAIN units \ chosen :
                id \in DOMAIN units' /\ units'[id] = units[id]
            /\ \A l \in DOMAIN logs : l \in DOMAIN logs' /\ logs'[l] = logs[l]]_vars

\* ------------------------------------------- selection from a given pool
\* Document ids are random, so the order in which the cache lists the sheets
\* says nothing about their createdAt.  A pool of up to MaxPool sheets of
\* manually added stock, in every order of createdAt.
MaxPool == 2

Pools ==
    UNION {[1..n -> {ManualStock(m, len, t) :
                        m \in Materials, len \in FormLengths, t \in 0..MaxTime}] :
           n \in 0..MaxPool}

InitPool ==
    /\ units \in Pools
    /\ inventory = units
    /\ logs = <<>>
    /\ usageLog = <<>>
    /\ nextUnit = Len(units) + 1
    /\ nextLog = 1
    /\ now = MaxTime
    /\ lag = 0
    /\ last = Idle
    /\ materialDocs = MaterialMaster
    /\ materials = materialDocs
    /\ deleting = NotDeleting
    /\ ui = InitialUi
    /\ otherView = NoView

NextSelect ==
    \/ OnSnapshot
    \/ HandlerReturns
    \/ UseStockNow
    \/ EditOutgoingLog
    \/ StockEdit

SpecSelect == InitPool /\ [][NextSelect]_vars

\* The handlers that select sheets, the requirements of a call in the order
\* in which they are served, and the ids a call keeps out of its pool.
SelectingOps == {"UseStock", "EditCompleted", "StockEdit", "Fulfill"}

SelectionReqs(call) ==
    CASE call.op = "UseStock" -> JobsReqs(call.arg)
      [] call.op = "Fulfill" -> Tally(call.arg.details, {})
      [] call.op = "EditCompleted" -> ItemReqs(call.arg.data.items)
      [] call.op = "StockEdit" ->
            LET have == CurrentStock(inventory, call.arg.materialType, call.arg.length)
            IN  IF have > call.arg.newQuantity
                THEN <<[materialType |-> call.arg.materialType,
                        length |-> call.arg.length,
                        qty |-> have - call.arg.newQuantity]>>
                ELSE <<>>
      [] OTHER -> <<>>

Excluded(call) ==
    IF call.op = "EditCompleted"
    THEN {call.arg.log.details[i].id : i \in 1..Len(call.arg.log.details)}
    ELSE {}

Matching(pool, r, excluded) ==
    {id \in DOMAIN pool \ excluded : IsOnHandAt(pool[id], r.materialType, r.length)}

\* sel serves reqs one after the other, each with its first q matching
\* sheets of the pool in ascending createdAt.
RECURSIVE FirstInFirstOut(_, _, _, _)
FirstInFirstOut(pool, excluded, reqs, sel) ==
    IF reqs = <<>> THEN sel = <<>>
    ELSE LET q == Head(reqs).qty
             matching == Matching(pool, Head(reqs), excluded)
             chosen == {sel[i] : i \in 1..q}
         IN  /\ Len(sel) >= q
             /\ Cardinality(chosen) = q
             /\ chosen \subseteq matching
             /\ \A i, j \in 1..q :
                    i < j => pool[sel[i]].createdAt <= pool[sel[j]].createdAt
             /\ \A u \in matching \ chosen, c \in chosen :
                    pool[u].createdAt >= pool[c].createdAt
             /\ FirstInFirstOut(pool, excluded, Tail(reqs), SubSeq(sel, q + 1, Len(sel)))

Before(pool, a, b) ==
    \/ pool[a].createdAt < pool[b].createdAt
    \/ pool[a].createdAt = pool[b].createdAt /\ a < b

RECURSIVE OnlyPossibleSelection(_, _, _, _)
OnlyPossibleSelection(pool, excluded, reqs, sel) ==
    IF reqs = <<>> THEN sel = <<>>
    ELSE LET q == Head(reqs).qty
             matching == Matching(pool, Head(reqs), excluded)
             chosen == {sel[i] : i \in 1..q}
         IN  /\ Len(sel) >= q
             /\ chosen \subseteq matching
             /\ \A i, j \in 1..q : i < j => Before(pool, sel[i], sel[j])
             /\ \A u \in matching \ chosen, c \in chosen : Before(pool, c, u)
             /\ OnlyPossibleSelection(pool, excluded, Tail(reqs),
                                      SubSeq(sel, q + 1, Len(sel)))

\* C13: the sheets a call selects, and their order, are fixed by the pool,
\* the predicate and the quantities alone: they are the first q matching
\* sheets in the order of createdAt with sheets of equal createdAt in the
\* order in which the pool lists them, so two runs on the same pool return
\* the same sheets in the same order.
FifoDeterminism ==
    [][(last'.op \in SelectingOps /\ last'.err \in {"none", "commit"}) =>
        OnlyPossibleSelection(inventory, Excluded(last'), SelectionReqs(last'),
                              last'.sel)]_vars

\* A call took one of two matching sheets of the same createdAt and left
\* the other.
TieResolved ==
    /\ last.op \in SelectingOps
    /\ last.err = "none"
    /\ \E c \in Range(last.sel), u \in DOMAIN inventory \ Range(last.sel) :
        /\ IsOnHandAt(inventory[u], inventory[c].materialType, inventory[c].length)
        /\ inventory[u].createdAt = inventory[c].createdAt

\* ------------------------------------------- shortfall reporting
\* The requirements of a call that ask for more sheets than the store has
\* On Hand at their key.
ShortOf(inv, reqs) ==
    {i \in 1..Len(reqs) :
        reqs[i].qty > CurrentStock(inv, reqs[i].materialType, reqs[i].length)}

\* C14: a use of stock, a fulfilment or a manual removal that asks for q
\* sheets of a key of which only a < q are On Hand fails with the
\* not-enough-stock error, and the error tells q, a and the key.
ShortfallReporting ==
    [][(/\ last'.op \in {"UseStock", "Fulfill", "StockEdit"}
        /\ ShortOf(units, SelectionReqs(last')) # {}) =>
            /\ ~last'.ok
            /\ last'.err = "NotEnoughStock"
            /\ \E i \in ShortOf(units, SelectionReqs(last')) :
                LET r == SelectionReqs(last')[i]
                IN  last'.info = ShortInfo(r.qty,
                                     CurrentStock(units, r.materialType, r.length),
                                     r.materialType, r.length)]_vars

\* ------------------------------------------- scheduled use and fulfilment
NextFulfill ==
    \/ OnSnapshot
    \/ HandlerReturns
    \/ AddOrder
    \/ UseStockScheduled
    \/ FulfillScheduledLog

SpecFulfill == Init /\ [][NextFulfill]_vars

\* A pool of manually added stock and one Scheduled record, as
\* handleUseStock writes it for a job of the form.
ScheduledRecords ==
    {<<ScheduledLog(UseJob(its), ItemReqs(its))>> : its \in ItemLists}

InitScheduled ==
    /\ units \in Pools
    /\ inventory = units
    /\ logs \in ScheduledRecords
    /\ usageLog = logs
    /\ nextUnit = Len(units) + 1
    /\ nextLog = Len(logs) + 1
    /\ now = MaxTime
    /\ lag = 0
    /\ last = Idle
    /\ materialDocs = MaterialMaster
    /\ materials = materialDocs
    /\ deleting = NotDeleting
    /\ ui = InitialUi
    /\ otherView = NoView

NextEditScheduled ==
    \/ OnSnapshot
    \/ HandlerReturns
    \/ EditOutgoingLog

SpecEditScheduled == InitScheduled /\ [][NextEditScheduled]_vars

\* The keys a sheet can have.
Keys == Materials \X Lengths

\* C15: after a successful fulfilment of a record, the record is Completed
\* and stamped fulfilledAt; its details are sheets that were On Hand, as
\* many at every key as the scheduled details asked; exactly those sheets
\* went from On Hand to Used and carry the record's id; no other sheet
\* changed.
FulfillPostcondition ==
    [][(last'.op = "Fulfill" /\ last'.ok) =>
        LET id == last'.arg.id
            details == logs'[id].details
            ids == {details[i].id : i \in 1..Len(details)}
        IN  /\ id \in DOMAIN logs'
            /\ logs'[id].status = "Completed"
            /\ logs'[id].fulfilledAt = "set"
            /\ \A k \in Keys :
                CountAt(details, k[1], k[2]) = CountAt(last'.arg.details, k[1], k[2])
            /\ \A d \in ids : d \in DOMAIN units /\ units[d].status = "On Hand"
            /\ NewlyUsed = ids
            /\ \A d \in ids : d \in DOMAIN units' /\ units'[d].usageLogId = id
            /\ DOMAIN units' = DOMAIN units
            /\ \A u \in DOMAIN units \ ids : units'[u] = units[u]]_vars

\* C16: a fulfilment of a record that needs, at some key, more sheets than
\* are On Hand changes nothing: no sheet and no record, the record to fulfil
\* included.
FulfillAbortsAtomically ==
    [][(/\ last'.op = "Fulfill"
        /\ ShortOf(units, Tally(last'.arg.details, {})) # {}) =>
            /\ ~last'.ok
            /\ units' = units
            /\ logs' = logs]_vars

\* C17: a scheduled use of stock changes no sheet, whatever it asks for; it
\* writes one Scheduled record per job that asks for a sheet, with one
\* descriptor without id per requested sheet, as many at every key as
\* requested, and qty minus their number; earlier records are unchanged.
ScheduledUseReservesNothing ==
    [][last'.op = "ScheduleStock" =>
        LET jobs == last'.arg
            new == DOMAIN logs' \ DOMAIN logs
        IN  /\ last'.ok
            /\ last'.sel = <<>>
            /\ units' = units
            /\ \A k \in Keys :
                CurrentStock(units', k[1], k[2]) = CurrentStock(units, k[1], k[2])
            /\ \A l \in DOMAIN logs : l \in DOMAIN logs' /\ logs'[l] = logs[l]
            /\ new = {nextLog + i - 1 : i \in 1..Len(jobs)}
            /\ Cardinality(new) = Cardinality(PositiveJobs(jobs))
            /\ \A i \in 1..Len(jobs) :
                LET rec == logs'[nextLog + i - 1]
                    reqs == ItemReqs(jobs[i].items)
                IN  /\ rec.status = "Scheduled"
                    /\ Len(rec.details) = TotalQty(reqs)
                    /\ rec.qty = 0 - TotalQty(reqs)
                    /\ \A j \in 1..Len(rec.details) : rec.details[j].id = NoId
                    /\ \A k \in Keys :
                        CountAt(rec.details, k[1], k[2]) = RequestedAt(reqs, k[1], k[2])]_vars

\* A use was scheduled for more sheets than are On Hand while some are.
ScheduledBeyondStock ==
    /\ last.op = "ScheduleStock"
    /\ last.ok
    /\ \E id \in DOMAIN units : units[id].status = "On Hand"
    /\ ShortOf(units, JobsReqs(last.arg)) # {}
    /\ \E l \in DOMAIN logs : logs[l].status = "Scheduled"

\* ------------------------------------------- edits of a record
\* C18: an edit of a record that is Scheduled succeeds whatever the stock,
\* changes no sheet and no other record, leaves the record Scheduled and
\* not fulfilled, and overwrites its job, customer, details (one descriptor
\* without id per requested sheet) and qty from the form.
EditScheduledTouchesNoUnit ==
    [][(/\ last'.op = "EditScheduled"
        /\ last'.arg.log.id \in DOMAIN logs
        /\ logs[last'.arg.log.id].status = "Scheduled") =>
        LET id == last'.arg.log.id
            data == last'.arg.data
            reqs == ItemReqs(data.items)
        IN  /\ last'.ok
            /\ units' = units
            /\ DOMAIN logs' = DOMAIN logs
            /\ \A l \in DOMAIN logs \ {id} : logs'[l] = logs[l]
            /\ logs'[id].status = "Scheduled"
            /\ logs'[id].fulfilledAt = logs[id].fulfilledAt
            /\ data.jobName # "" => logs'[id].job = data.jobName
            /\ logs'[id].customer = data.customer
            /\ logs'[id].qty = 0 - TotalQty(reqs)
            /\ Len(logs'[id].details) = TotalQty(reqs)
            /\ \A j \in 1..Len(logs'[id].details) : logs'[id].details[j].id = NoId
            /\ \A k \in Keys :
                CountAt(logs'[id].details, k[1], k[2]) = RequestedAt(reqs, k[1], k[2])]_vars

\* A Scheduled record was edited to ask for more sheets of a key than are
\* On Hand, with stock present, and got the new job name.
ScheduledEditedBeyondStock ==
    /\ last.op = "EditScheduled"
    /\ last.ok
    /\ \E id \in DOMAIN units : units[id].status = "On Hand"
    /\ ShortOf(units, ItemReqs(last.arg.data.items)) # {}
    /\ logs[last.arg.log.id].job = last.arg.data.jobName
    /\ logs[last.arg.log.id].job # last.arg.log.job

\* C19: an edit of a Completed record that asks, at some key, for more
\* sheets than the record held, by more than are On Hand at that key, fails
\* and changes no sheet and no record.
EditPreCheck ==
    [][(/\ last'.op = "EditCompleted"
        /\ PreCheckFails(units, last'.arg.log.details, ItemReqs(last'.arg.data.items))) =>
            /\ ~last'.ok
            /\ units' = units
            /\ logs' = logs]_vars

\* The ids in the details of the record an edit was given.
OriginalIds(call) ==
    {call.arg.log.details[i].id : i \in 1..Len(call.arg.log.details)} \ {NoId}

\* C20: after a successful edit of a Completed record every sheet of the
\* original details is On Hand again with usageLogId, jobNameUsed,
\* customerUsed and usedAt cleared, and none of them is among the sheets
\* the edit consumed.
EditReturnAndExclusion ==
    [][(last'.op = "EditCompleted" /\ last'.ok) =>
        /\ \A id \in OriginalIds(last') :
            /\ id \in DOMAIN units'
            /\ \A f \in DOMAIN ReturnedFields : units'[id][f] = ReturnedFields[f]
            /\ id \notin Range(last'.sel)
        /\ \A id \in Range(last'.sel) :
            id \in DOMAIN units' /\ units'[id].status = "Used"]_vars

\* An edit returned the sheet of the record and consumed another one of the
\* same key instead.
ReturnedAndReplaced ==
    /\ last.op = "EditCompleted"
    /\ last.ok
    /\ \E o \in OriginalIds(last), c \in Range(last.sel) :
        /\ o # c
        /\ o \in last.ret
        /\ units[o].status = "On Hand"
        /\ units[c].status = "Used"
        /\ units[o].length = units[c].length

\* The sheets of `ids` that have the key (m, len) in inv.
IdsAt(inv, ids, m, len) ==
    {id \in ids \cap DOMAIN inv : inv[id].materialType = m /\ inv[id].length = len}

\* C21: after a successful edit of a Completed record the details of the
\* record are the sheets the edit consumed, as many sheets at every key as
\* the form asks, qty is minus their number, each of them is Used and
\* carries the record's id, and the record is still the same Completed one.
EditCommit ==
    [][(last'.op = "EditCompleted" /\ last'.ok) =>
        LET id == last'.arg.log.id
            reqs == ItemReqs(last'.arg.data.items)
            details == logs'[id].details
            consumed == Range(last'.sel)
        IN  /\ id \in DOMAIN logs /\ id \in DOMAIN logs'
            /\ logs'[id].status = "Completed"
            /\ logs[id].status = "Completed"
            /\ [i \in 1..Len(details) |-> details[i].id] = last'.sel
            /\ \A k \in Keys :
                Cardinality(IdsAt(units', consumed, k[1], k[2]))
                    = RequestedAt(reqs, k[1], k[2])
            /\ logs'[id].qty = 0 - Cardinality(consumed)
            /\ \A u \in consumed :
                /\ u \in DOMAIN units'
                /\ units'[u].status = "Used"
                /\ units'[u].usageLogId = id]_vars

\* ------------------------------------------- manual stock adjustment
\* C22: after a successful manual adjustment of a key to N, the sheets On
\* Hand at the key number N; the sheets of other keys and the sheets that
\* are not On Hand are unchanged.
ManualAdjustSymmetry ==
    [][(last'.op = "StockEdit" /\ last'.ok) =>
        LET m == last'.arg.materialType
            len == last'.arg.length
        IN  /\ CurrentStock(units', m, len) = last'.arg.newQuantity
            /\ \A id \in DOMAIN units :
                ~IsOnHandAt(units[id], m, len) =>
                    id \in DOMAIN units' /\ units'[id] = units[id]]_vars

\* C23: with diff the new quantity minus the number of sheets On Hand at
\* the key, a manual adjustment writes nothing when diff = 0, creates diff
\* sheets On Hand of manual origin when diff > 0, and when diff < 0 deletes
\* the |diff| oldest sheets On Hand at the key (or fails, deleting nothing,
\* when there are fewer); it never writes a record.
ManualAdjustByDirection ==
    [][last'.op = "StockEdit" =>
        LET m == last'.arg.materialType
            len == last'.arg.length
            diff == last'.arg.newQuantity - CurrentStock(units, m, len)
            created == DOMAIN units' \ DOMAIN units
            deleted == DOMAIN units \ DOMAIN units'
            onHand == {id \in DOMAIN units : IsOnHandAt(units[id], m, len)}
        IN  /\ logs' = logs
            /\ \A id \in DOMAIN units \cap DOMAIN units' : units'[id] = units[id]
            /\ diff = 0 => created = {} /\ deleted = {}
            /\ diff > 0 =>
                /\ last'.ok
                /\ deleted = {}
                /\ Cardinality(created) = diff
                /\ \A id \in created :
                    /\ IsOnHandAt(units'[id], m, len)
                    /\ units'[id].supplier = "Manual Edit"
                    /\ units'[id].job = "MODIFICATION: ADD"
            /\ diff < 0 =>
                /\ created = {}
                /\ IF Cardinality(onHand) < 0 - diff
                   THEN ~last'.ok /\ deleted = {}
                   ELSE /\ last'.ok
                        /\ Cardinality(deleted) = 0 - diff
                        /\ deleted \subseteq onHand
                        /\ \A d \in deleted, u \in onHand \ deleted :
                            units[d].createdAt <= units[u].createdAt]_vars

\* ------------------------------------------- orders
\* The number of sheets of key (m, len) that the jobs of status st ask for.
OrderedAt(jobs, st, m, len) ==
    RequestedAt(JobsReqs(SelectSeq(jobs, LAMBDA j : j.status = st)), m, len)

\* C24: an order (new or edited) creates, for every key and every job
\* status, as many sheets of that key and status as the jobs of that status
\* ask for in their positive quantities, and no other sheet; a created
\* sheet has an arrival date only if it is Ordered, and no date of receipt.
OrderCreation ==
    [][(last'.op \in {"AddOrder", "EditOrder"} /\ last'.ok) =>
        LET jobs == last'.arg.jobs
            created == DOMAIN units' \ DOMAIN units
        IN  /\ \A id \in created : units'[id].status \in OrderStatuses
            /\ \A k \in Keys, st \in OrderStatuses :
                Cardinality({id \in created :
                                /\ units'[id].materialType = k[1]
                                /\ units'[id].length = k[2]
                                /\ units'[id].status = st})
                    = OrderedAt(jobs, st, k[1], k[2])
            /\ \A id \in created :
                /\ units'[id].arrivalDate # "null" => units'[id].status = "Ordered"
                /\ units'[id].dateReceived = "null"]_vars

\* An order of two jobs, one Ordered and one On Hand, created a sheet of each.
MixedOrderPlaced ==
    /\ last.op = "AddOrder"
    /\ last.ok
    /\ Len(last.arg.jobs) = 2
    /\ \E a, b \in DOMAIN units :
        /\ units[a].status = "Ordered" /\ units[a].arrivalDate = "set"
        /\ units[b].status = "On Hand" /\ units[b].arrivalDate = "null"

\* The ids of the sheets of an order group.
GroupIds(group) == {group.details[i].id : i \in 1..Len(group.details)} \ {NoId}

\* C25: an edit of an order replaces the group in one commit: when it
\* succeeds none of the sheets of the group is left and the replacements
\* asked for are there; when it fails every sheet is as it was.  No step
\* takes the sheets of the group away without writing the replacements.
OrderEditAtomicReplace ==
    [][last'.op = "EditOrder" =>
        LET ids == GroupIds(last'.arg.group)
            created == DOMAIN units' \ DOMAIN units
        IN  IF last'.ok
            THEN /\ ids \cap DOMAIN units' = {}
                 /\ Cardinality(created) = TotalQty(JobsReqs(last'.arg.jobs))
                 /\ \A id \in created :
                        units'[id].createdAt = last'.arg.group.dateOrdered
            ELSE units' = units /\ logs' = logs]_vars

\* An order group seen in a current cache was edited: its sheets are gone
\* and replacements are in the store.
OrderGroupReplaced ==
    /\ last.op = "EditOrder"
    /\ last.ok
    /\ lag = 1
    /\ GroupIds(last.arg.group) # {}
    /\ GroupIds(last.arg.group) \cap DOMAIN units = {}
    /\ \E id \in DOMAIN units : id \notin DOMAIN inventory

\* C26: a receipt of an order group sets every sheet of the group that has
\* an id On Hand with a date of receipt and changes nothing else of it; the
\* sheets outside the group and the records are unchanged and nothing is
\* selected.  (A receipt that fails changes nothing.)
ReceiveOrderFrame ==
    [][last'.op = "ReceiveOrder" =>
        LET ids == GroupIds(last'.arg)
        IN  /\ logs' = logs
            /\ last'.sel = <<>>
            /\ DOMAIN units' = DOMAIN units
            /\ IF last'.ok
               THEN /\ \A id \in ids :
                        units'[id] = [units[id] EXCEPT !.status = "On Hand",
                                                       !.dateReceived = "set"]
                    /\ \A id \in DOMAIN units \ ids : units'[id] = units[id]
               ELSE units' = units]_vars

\* An Ordered group was received while the store holds a sheet outside it.
OrderedGroupReceived ==
    /\ last.op = "ReceiveOrder"
    /\ last.ok
    /\ \E id \in GroupIds(last.arg) :
        /\ inventory[id].status = "Ordered"
        /\ units[id].status = "On Hand"
        /\ units[id].dateReceived = "set"
    /\ \E id \in DOMAIN units \ GroupIds(last.arg) : units[id].dateReceived = "null"

\* ----------------------------------------- handleConfirmDeleteCategories
MAX_BATCH_SIZE == 500

\* Object.values(materials): the cached materials as an array of ids.
RECURSIVE MaterialIds(_)
MaterialIds(S) ==
    IF S = {} THEN <<>>
    ELSE LET m == CHOOSE x \in S : TRUE IN <<m>> \o MaterialIds(S \ {m})

\* A list that puts the units of the categories before their materials.
UnitsBeforeMaterials(mats, inv, categoriesToDelete) ==
    LET ms == {m \in DOMAIN mats : mats[m].category \in categoriesToDelete}
        sheets == SelectSeq(InventoryArray(inv), LAMBDA item : item.materialType \in ms)
    IN  [k \in 1..Len(sheets) |->
            [coll |-> "inventory", id |-> "", unit |-> sheets[k].id]]
        \o [k \in 1..Len(MaterialIds(ms)) |->
            [coll |-> "materials", id |-> MaterialIds(ms)[k], unit |-> NoId]]

\* allDocRefsToDelete: the materials of the categories, then the cached
\* units of those materials.  (No material id of the forms holds a '/', so
\* `id.replace(/\//g, '-')` leaves the ids as they are.)
AllDocRefsToDelete(mats, inv, categoriesToDelete) ==
    LET materialIdsToDelete ==
            MaterialIds({m \in DOMAIN mats : mats[m].category \in categoriesToDelete})
        inventoryToDelete ==
            SelectSeq(InventoryArray(inv),
                      LAMBDA item : \E k \in 1..Len(materialIdsToDelete) :
                                        materialIdsToDelete[k] = item.materialType)
    IN  [k \in 1..Len(materialIdsToDelete) |->
            [coll |-> "materials", id |-> materialIdsToDelete[k], unit |-> NoId]]
        \o [k \in 1..Len(inventoryToDelete) |->
            [coll |-> "inventory", id |-> "", unit |-> inventoryToDelete[k].id]]

\* A slice that runs to the end of the array.
SliceToEnd(refs, i) == SubSeq(refs, i + 1, Len(refs))

\* allDocRefsToDelete.slice(i, i + MAX_BATCH_SIZE)
Chunk(refs, i) ==
    SubSeq(refs, i + 1,
           IF i + MAX_BATCH_SIZE < Len(refs) THEN i + MAX_BATCH_SIZE ELSE Len(refs))

\* The categories that can be ticked for deletion.
Categories == {CategoryOf(m) : m \in Materials}

\* handleFinishEditing: the confirmation is asked for when categories are
\* marked, else edit mode ends.
FinishEditing ==
    /\ last = Idle
    /\ ~deleting.running
    /\ ui.isEditMode
    /\ ui.modal = NoModal
    /\ ui' = IF ui.categoriesToDelete # {}
             THEN [ui EXCEPT !.modal = [type |-> "confirm-delete-categories",
                                        error |-> "null"]]
             ELSE [ui EXCEPT !.isEditMode = FALSE]
    /\ UNCHANGED <<units, logs, inventory, usageLog, nextUnit, nextLog, now, lag,
                   last, materialDocs, materials, deleting, otherView>>

\* onConfirm of the confirmation modal: the handler is called and lists the
\* documents to delete from the cache.
ConfirmDeleteCategories ==
    /\ CanCall
    /\ ~deleting.running
    /\ ui.modal.type = "confirm-delete-categories"
    /\ \E categoriesToDelete \in {ui.categoriesToDelete} :
        deleting' = [running |-> TRUE, cats |-> categoriesToDelete,
                     refs |-> AllDocRefsToDelete(materials, inventory,
                                                 categoriesToDelete),
                     i |-> 0, sizes |-> <<>>,
                     fresh |-> (inventory = units /\ materials = materialDocs)]
    /\ UNCHANGED <<units, logs, inventory, usageLog, nextUnit, nextLog, now, lag,
                   last, materialDocs, materials, ui, otherView>>

\* One turn of the loop: the batch of the next chunk commits (a delete of a
\* document that is not there is no error).
BatchCommit ==
    /\ deleting.running
    /\ deleting.i < Len(deleting.refs)
    /\ LET chunk == Chunk(deleting.refs, deleting.i)
           mats == {chunk[k].id : k \in {j \in 1..Len(chunk) : chunk[j].coll = "materials"}}
           ids == {chunk[k].unit : k \in {j \in 1..Len(chunk) : chunk[j].coll = "inventory"}}
       IN  /\ materialDocs' = [m \in DOMAIN materialDocs \ mats |-> materialDocs[m]]
           /\ units' = [id \in DOMAIN units \ ids |-> units[id]]
           /\ deleting' = [deleting EXCEPT !.i = @ + MAX_BATCH_SIZE,
                                           !.sizes = Append(@, Len(chunk))]
    /\ lag' = IF units' # units \/ materialDocs' # materialDocs THEN lag + 1 ELSE lag
    /\ UNCHANGED <<logs, inventory, usageLog, nextUnit, nextLog, now, last, materials,
                   ui, otherView>>

\* batch.commit() rejects: the catch block sets the error of the modal,
\* 'Failed to delete categories. Please try again.'
BatchCommitFails ==
    /\ deleting.running
    /\ deleting.i < Len(deleting.refs)
    /\ deleting' = [deleting EXCEPT !.running = FALSE]
    /\ last' = Last("DeleteCategories", deleting.cats, FALSE, "DeleteFailed",
                    NoInfo, <<>>, {})
    /\ ui' = [ui EXCEPT !.modal.error = "Failed to delete categories. Please try again."]
    /\ UNCHANGED <<units, logs, inventory, usageLog, nextUnit, nextLog, now, lag,
                   materialDocs, materials, otherView>>

\* An end of the loop that leaves the state of App as it is.
DoneWithoutReset ==
    /\ deleting.running
    /\ deleting.i >= Len(deleting.refs)
    /\ deleting' = [deleting EXCEPT !.running = FALSE]
    /\ last' = Last("DeleteCategories", deleting.cats, TRUE, "none", NoInfo, <<>>, {})
    /\ UNCHANGED <<units, logs, inventory, usageLog, nextUnit, nextLog, now, lag,
                   materialDocs, materials, ui, otherView>>

\* The loop is over: the selection is cleared and the modal closed.
ConfirmDeleteDone ==
    /\ deleting.running
    /\ deleting.i >= Len(deleting.refs)
    /\ deleting' = [deleting EXCEPT !.running = FALSE]
    /\ last' = Last("DeleteCategories", deleting.cats, TRUE, "none", NoInfo, <<>>, {})
    /\ ui' = [categoriesToDelete |-> {}, isEditMode |-> FALSE, modal |-> NoModal,
              activeView |-> "dashboard"]
    /\ UNCHANGED <<units, logs, inventory, usageLog, nextUnit, nextLog, now, lag,
                   materialDocs, materials, otherView>>

\* Stores of one material with as many sheets as the chunking needs.
CascadeSizes == {0, 1, 499, 500, 999, 1200}

InitCascade ==
    /\ \E n \in CascadeSizes : units = [id \in 1..n |-> ManualStock("A16GA", 96, 0)]
    /\ inventory = units
    /\ logs = <<>>
    /\ usageLog = <<>>
    /\ nextUnit = Len(units) + 1
    /\ nextLog = 1
    /\ now = MaxTime
    /\ lag = 0
    /\ last = Idle
    /\ materialDocs = MaterialMaster
    /\ materials = materialDocs
    /\ deleting = NotDeleting
    /\ ui \in {[InitialUi EXCEPT !.isEditMode = TRUE, !.categoriesToDelete = cats,
                                 !.activeView = view] :
                    cats \in SUBSET Categories, view \in Views}
    /\ otherView = NoView

NextCascade ==
    \/ FinishEditing
    \/ OnSnapshot
    \/ HandlerReturns
    \/ ConfirmDeleteCategories
    \/ BatchCommit
    \/ BatchCommitFails
    \/ ConfirmDeleteDone

SpecCascade == InitCascade /\ [][NextCascade]_vars

\* The units among the documents listed for deletion.
UnitRefs(refs) == SelectSeq(refs, LAMBDA ref : ref.coll = "inventory")

\* The categories' materials and their units, as the cache shows them.
CachedUnder(cats) ==
    Cardinality({m \in DOMAIN materials : materials[m].category \in cats})
        + Cardinality({id \in DOMAIN inventory :
              \E m \in DOMAIN materials :
                  /\ materials[m].category \in cats
                  /\ inventory[id].materialType = m})

\* C27 as stated: a cascade over a category with 1200 units that runs to
\* its end has committed exactly three batches, of 500, 500 and 200
\* documents, in that order.
CascadeChunkingAsStated ==
    [][(last'.op = "DeleteCategories" /\ last'.ok
            /\ Len(UnitRefs(deleting.refs)) = 1200)
        => deleting.sizes = <<500, 500, 200>>]_vars

\* C27: the cascade lists the materials of the categories and the units of
\* those materials that the cache shows, n documents in all, and a cascade
\* that runs to its end has committed them in ceil(n / 500) batches, in
\* order, each of 500 documents except the last, which holds the rest.
CascadeChunking ==
    [][/\ (deleting'.running /\ ~deleting.running)
            => Len(deleting'.refs) = CachedUnder(deleting'.cats)
       /\ (last'.op = "DeleteCategories" /\ last'.ok)
            => LET n == Len(deleting.refs)
                   commits == (n + MAX_BATCH_SIZE - 1) \div MAX_BATCH_SIZE
               IN  /\ Len(deleting.sizes) = commits
                   /\ \A k \in 1..commits :
                        deleting.sizes[k] =
                            IF k < commits THEN MAX_BATCH_SIZE
                            ELSE n - MAX_BATCH_SIZE * (commits - 1)]_vars

\* A cascade over one material and its 1200 units ran to its end in three
\* batches, the last of 201 documents.
CascadeOf1200Done ==
    /\ last.op = "DeleteCategories"
    /\ last.ok
    /\ Len(UnitRefs(deleting.refs)) = 1200
    /\ deleting.sizes = <<500, 500, 201>>
    /\ units = <<>>

\* The documents of the chunks committed so far.
Committed(d) == SubSeq(d.refs, 1, IF d.i < Len(d.refs) THEN d.i ELSE Len(d.refs))

\* C28: when a chunk of the cascade fails after earlier chunks committed,
\* the documents of the earlier chunks stay deleted, the store is not
\* touched by the failing chunk, no later chunk is attempted, and the
\* failure handed to the caller tells which chunks succeeded.
CascadePartialFailure ==
    [][(last'.op = "DeleteCategories" /\ ~last'.ok /\ deleting.sizes # <<>>)
        => /\ units' = units /\ materialDocs' = materialDocs
           /\ \A k \in 1..Len(Committed(deleting)) :
                LET ref == Committed(deleting)[k]
                IN  IF ref.coll = "materials"
                    THEN ref.id \notin DOMAIN materialDocs'
                    ELSE ref.unit \notin DOMAIN units'
           /\ ~deleting'.running
           /\ deleting'.sizes = deleting.sizes
           /\ last'.info = [committed |-> Len(deleting.sizes)]]_vars

\* C29: a cascade that is called on a current cache and runs to its end
\* leaves no material and no unit of the named categories in the store,
\* also when an earlier cascade for the same categories failed part-way.
CascadeRerun ==
    [][(last'.op = "DeleteCategories" /\ last'.ok /\ deleting.fresh)
        => /\ \A m \in DOMAIN materialDocs' :
                materialDocs'[m].category \notin deleting.cats
           /\ \A id \in DOMAIN units' :
                CategoryOf(units'[id].materialType) \notin deleting.cats]_vars

\* -------------------------------------------- use-stock forms, any customer
\* Customers typed into the forms: a name, nothing, a blank.
Customers == {"ACME", "", " "}

\* One job with one item row, or two such jobs, each with any customer.
CustomerBatches ==
    {<<[UseJob(<<r>>) EXCEPT !.customer = c]>> : c \in Customers, r \in Rows}
        \cup {<<[UseJob(<<r1>>) EXCEPT !.customer = c1],
                [UseJob(<<r2>>) EXCEPT !.customer = c2]>> :
                    c1, c2 \in Customers, r1, r2 \in Rows}

UseStockAnyCustomer ==
    /\ CanCall
    /\ \E jobs \in CustomerBatches, isScheduled \in BOOLEAN :
            HandleUseStock(jobs, isScheduled)

UseStockModalAnyCustomer ==
    /\ CanCall
    /\ \E jobs \in CustomerBatches : UseStockModalSubmit(jobs)

NextValidate ==
    \/ OnSnapshot
    \/ HandlerReturns
    \/ UseStockAnyCustomer
    \/ UseStockModalAnyCustomer

SpecValidate == InitPool /\ [][NextValidate]_vars

\* The entry points of UseStock.
UseStockOps == {"UseStock", "ScheduleStock", "UseStockModal"}

\* C30: on every entry point of UseStock a request in which a job has an
\* empty or blank customer is rejected with a validation error: nothing is
\* selected and no unit or record changes.
ValidationBeforeStore ==
    [][(last'.op \in UseStockOps
            /\ \E i \in 1..Len(last'.arg) : Trim(last'.arg[i].customer) = "")
        => /\ ~last'.ok
           /\ last'.err = "Validation"
           /\ last'.sel = <<>>
           /\ units' = units
           /\ logs' = logs]_vars

\* ------------------------------------------ calls of the ledger handlers
\* A call of handleUseStock or handleStockEdit as a value.
UseCall(jobs, isScheduled) ==
    [op |-> "UseStock", jobs |-> jobs, isScheduled |-> isScheduled,
     materialType |-> "none", length |-> 0, newQuantity |-> 0]

EditCall(m, len, newQuantity) ==
    [op |-> "StockEdit", jobs |-> <<>>, isScheduled |-> FALSE,
     materialType |-> m, length |-> len, newQuantity |-> newQuantity]

\* The (materialType, length) keys a call reads or writes.
CallKeys(call) ==
    IF call.op = "StockEdit" THEN {<<call.materialType, call.length>>}
    ELSE {<<r.materialType, r.length>> : r \in Range(JobsReqs(call.jobs))}

\* The sheets a call of handleStockEdit adds.
Added(cache, call) ==
    IF call.op # "StockEdit" THEN 0
    ELSE LET diff == call.newQuantity
                        - InventorySummary(cache, call.materialType, call.length)
         IN  IF diff > 0 THEN diff ELSE 0

\* What the transaction function of a call does on the cache it is given.
CallPlan(cache, call, id, logId, time) ==
    IF call.op = "UseStock"
    THEN UseStockPlan(cache, call.jobs, call.isScheduled, logId)
    ELSE LET diff == call.newQuantity
                        - InventorySummary(cache, call.materialType, call.length)
             plan == IF diff = 0 THEN Plan("none", <<>>, <<>>, {})
                     ELSE StockEditPlan(cache, call.materialType, call.length,
                                        diff, id, time)
         IN  [err |-> plan.err, info |-> plan.info, writes |-> plan.writes,
              sel |-> plan.sel, ret |-> plan.ret, made |-> 0]

\* The store after a call made on a cache: Outcome as a function of the
\* store st = [units, logs, nextUnit, nextLog].
OutcomeOf(st, cache, call, time) ==
    LET plan == CallPlan(cache, call, st.nextUnit, st.nextLog, time)
        r == RunTransaction(st.units, st.logs, plan)
    IN  [units |-> r.inv, logs |-> r.log,
         nextUnit |-> IF r.ok THEN st.nextUnit + Added(cache, call) ELSE st.nextUnit,
         nextLog |-> IF r.ok THEN st.nextLog + plan.made ELSE st.nextLog,
         ok |-> r.ok, err |-> r.err]

\* The behaviours in which stock of a pool is used and adjusted.
NextCommute ==
    \/ OnSnapshot
    \/ HandlerReturns
    \/ UseStockNow
    \/ StockEdit

SpecCommute == InitPool /\ [][NextCommute]_vars

\* The calls set against the call of a step: every manual adjustment and
\* every use of one job with one item row, immediate or scheduled.
OtherCalls ==
    {EditCall(m, len, q) : m \in Materials, len \in FormLengths, q \in 0..MaxQty}
        \cup {UseCall(<<UseJob(<<r>>)>>, sch) : r \in Rows, sch \in BOOLEAN}

\* The call a handler has just returned from.
CallOf(l) ==
    IF l.op = "StockEdit"
    THEN EditCall(l.arg.materialType, l.arg.length, l.arg.newQuantity)
    ELSE UseCall(l.arg, l.op = "ScheduleStock")

\* Two stores are the same up to the ids of the documents created from
\* unit id u0 and record id l0 on.
SameUpToIds(x, y, u0, l0) ==
    /\ DOMAIN x.units = DOMAIN y.units
    /\ DOMAIN x.logs = DOMAIN y.logs
    /\ \E s \in Permutations({id \in DOMAIN x.units : id >= u0}),
          p \in Permutations({id \in DOMAIN x.logs : id >= l0}) :
            LET S(id) == IF id \in DOMAIN s THEN s[id] ELSE id
                P(id) == IF id \in DOMAIN p THEN p[id] ELSE id
            IN  /\ \A id \in DOMAIN x.units :
                    y.units[S(id)] =
                        [x.units[id] EXCEPT !.usageLogId = P(@)]
                /\ \A id \in DOMAIN x.logs :
                    y.logs[P(id)] =
                        [x.logs[id] EXCEPT !.details =
                            [k \in 1..Len(@) |-> [@[k] EXCEPT !.id = S(@)]]]

\* The call of this step and the call b, made from the views cacheA and
\* cacheB(store) in either order of commit, have the same outcomes and
\* leave the same store.
CommuteFrom(b, refreshed) ==
    \E a \in {CallOf(last')} :
    \E b1 \in {OutcomeOf([units |-> units, logs |-> logs, nextUnit |-> nextUnit,
                          nextLog |-> nextLog], inventory, b, now)} :
    \E ab \in {OutcomeOf([units |-> units', logs |-> logs', nextUnit |-> nextUnit',
                          nextLog |-> nextLog'],
                         IF refreshed THEN units' ELSE inventory, b, now)} :
    \E ba \in {OutcomeOf([units |-> b1.units, logs |-> b1.logs,
                          nextUnit |-> b1.nextUnit, nextLog |-> b1.nextLog],
                         IF refreshed THEN b1.units ELSE inventory, a, now)} :
        /\ ba.ok = last'.ok /\ ba.err = last'.err
        /\ ab.ok = b1.ok /\ ab.err = b1.err
        /\ SameUpToIds(ab, ba, nextUnit, nextLog)

NextEditFulfill ==
    \/ OnSnapshot
    \/ HandlerReturns
    \/ EditOutgoingLog
    \/ FulfillScheduledLog

SpecEditFulfill == InitScheduled /\ [][NextEditFulfill]_vars

\* C32: in every state every record's qty is the negative of the number of
\* entries of its details.
SignedQuantity ==
    \A id \in DOMAIN logs : logs[id].qty = 0 - Len(logs[id].details)

\* C33: in every state every unit's status is one of Ordered, On Hand and
\* Used, and every record's status is one of Scheduled and Completed.
ClosedStatusDomains ==
    /\ \A id \in DOMAIN units : units[id].status \in {"Ordered", "On Hand", "Used"}
    /\ \A id \in DOMAIN logs : logs[id].status \in {"Scheduled", "Completed"}

\* Whether the document a reference names is in the given collections.
InStore(ref, mdocs, us) ==
    IF ref.coll = "materials" THEN ref.id \in DOMAIN mdocs ELSE ref.unit \in DOMAIN us

RECURSIVE SumOf(_)
SumOf(sizes) == IF sizes = <<>> THEN 0 ELSE Head(sizes) + SumOf(Tail(sizes))

\* C34: the cascade lists the cached materials of the named categories, then
\* the cached units of those materials, each once; every commit deletes the
\* next at most 500 references of the list and no later one; when the
\* cascade has run to its end the n references went in ceil(n / 500)
\* commits, all but the last of exactly 500, every reference in exactly one
\* commit, and none was issued when n = 0.
CascadeChunkBounds ==
    [][/\ (deleting'.running /\ ~deleting.running) =>
            LET refs == deleting'.refs
                ms == {m \in DOMAIN materials :
                            materials[m].category \in deleting'.cats}
                k == Len(SelectSeq(refs, LAMBDA ref : ref.coll = "materials"))
            IN  /\ \A j \in 1..Len(refs) :
                        refs[j].coll = IF j <= k THEN "materials" ELSE "inventory"
                /\ {refs[j].id : j \in 1..k} = ms
                /\ k = Cardinality(ms)
                /\ {refs[j].unit : j \in (k + 1)..Len(refs)}
                        = {id \in DOMAIN inventory : inventory[id].materialType \in ms}
                /\ \A i, j \in (k + 1)..Len(refs) :
                        refs[i].unit = refs[j].unit => i = j
       /\ (deleting.running /\ Len(deleting'.sizes) = Len(deleting.sizes) + 1) =>
            LET refs == deleting.refs
                from == MAX_BATCH_SIZE * Len(deleting.sizes)
                size == deleting'.sizes[Len(deleting'.sizes)]
            IN  /\ size \in 1..MAX_BATCH_SIZE
                /\ from = SumOf(deleting.sizes)
                /\ from + size <= Len(refs)
                /\ \A j \in (from + 1)..(from + size) :
                        ~InStore(refs[j], materialDocs', units')
                /\ \A j \in (from + size + 1)..Len(refs) :
                        InStore(refs[j], materialDocs, units)
                            => InStore(refs[j], materialDocs', units')
       /\ (last'.op = "DeleteCategories" /\ last'.ok) =>
            LET n == Len(deleting.refs)
                sizes == deleting.sizes
            IN  /\ MAX_BATCH_SIZE * Len(sizes) >= n
                /\ MAX_BATCH_SIZE * Len(sizes) < n + MAX_BATCH_SIZE
                /\ \A j \in 1..(Len(sizes) - 1) : sizes[j] = MAX_BATCH_SIZE
                /\ SumOf(sizes) = n
                /\ n = 0 => sizes = <<>>]_vars

\* A cascade over a list of exactly 1000 references ran to its end in two
\* full commits.
CascadeOfTwoFullChunks ==
    /\ last.op = "DeleteCategories"
    /\ last.ok
    /\ Len(deleting.refs) = 2 * MAX_BATCH_SIZE
    /\ deleting.sizes = <<MAX_BATCH_SIZE, MAX_BATCH_SIZE>>
    /\ deleting.refs[1].coll = "materials"
    /\ units = <<>>

\* C35: an edit of a Completed record (one that lists each of its sheets
\* once) made on a view that equals the store and passing the pre-check at every key completes the re-allocation and
\* commits; the error of the re-allocation occurs only on a view that
\* differs from the store.
PreCheckSufficient ==
    [][(last'.op = "EditCompleted" /\ inventory = units /\ usageLog = logs
            /\ \A i, j \in 1..Len(last'.arg.log.details) :
                    last'.arg.log.details[i].id = last'.arg.log.details[j].id => i = j)
        => /\ ~PreCheckFails(units, last'.arg.log.details,
                             ItemReqs(last'.arg.data.items)) => last'.ok
           /\ last'.err # "ConcurrencyError"]_vars

\* C40: when every chunk of the cascade has committed, no category is
\* marked any more, edit mode is off, no modal is shown and the active view
\* is the dashboard; when a chunk fails, the marked categories, edit mode
\* and the active view are as they were, the confirmation modal is still
\* shown and only its error is set; while the chunks are committed the
\* state of App does not change.
CascadeConfirmationState ==
    [][/\ (last'.op = "DeleteCategories" /\ last'.ok)
            => /\ ui'.categoriesToDelete = {}
               /\ ~ui'.isEditMode
               /\ ui'.modal.type = "null" /\ ui'.modal.error = "null"
               /\ ui'.activeView = "dashboard"
       /\ (last'.op = "DeleteCategories" /\ ~last'.ok)
            => /\ ui'.categoriesToDelete = ui.categoriesToDelete
               /\ ui'.categoriesToDelete = deleting.cats
               /\ ui'.isEditMode = ui.isEditMode
               /\ ui'.activeView = ui.activeView
               /\ ui'.modal.type = "confirm-delete-categories"
               /\ ui'.modal.type = ui.modal.type
               /\ ui'.modal.error # "null"
       /\ (deleting.running /\ deleting'.running) => ui' = ui]_vars

\* A cascade confirmed from the logs view failed after a chunk had
\* committed: the modal shows the error and the marks are kept.
CascadeFailedInLogsView ==
    /\ last.op = "DeleteCategories"
    /\ ~last.ok
    /\ deleting.sizes # <<>>
    /\ ui.activeView = "logs"
    /\ ui.isEditMode
    /\ ui.categoriesToDelete # {}
    /\ ui.modal.error # "null"

\* ------------------------------------------------------ a second client
\* onSnapshot at the second client.
OtherClientSnapshot ==
    /\ last = Idle
    /\ otherView # ViewOf(units, logs)
    /\ otherView' = ViewOf(units, logs)
    /\ UNCHANGED <<units, logs, inventory, usageLog, nextUnit, nextLog, now, lag,
                   last, materialDocs, materials, deleting, ui>>

\* handleFulfillScheduledLog at the second client: the record and the
\* inventory are those of its own cache.
OtherClientFulfill ==
    /\ last = Idle
    /\ \E id \in DOMAIN otherView.usageLog :
        /\ otherView.usageLog[id].status = "Scheduled"
        /\ \E logToFulfill \in {Sheet(otherView.usageLog, id)} :
            /\ Outcome("Fulfill", logToFulfill,
                       FulfillPlan(otherView.inventory, logToFulfill), 0, 0)

\* The behaviours in which two clients use stock and fulfil a Scheduled
\* record over a pool of stock.
NextTwoClients ==
    \/ OnSnapshot
    \/ HandlerReturns
    \/ UseStockNow
    \/ FulfillScheduledLog
    \/ OtherClientSnapshot
    \/ OtherClientFulfill

SpecTwoClients == InitScheduled /\ [][NextTwoClients]_vars

\* C36: a fulfilment of a record that the store already holds as Completed
\* takes no unit from On Hand to Used, and after every step the units Used
\* that refer to a record number at most the entries of its details.
FulfillAtMostOnce ==
    [][/\ (last'.op = "Fulfill" /\ last'.arg.id \in DOMAIN logs
               /\ logs[last'.arg.id].status = "Completed")
            => NewlyUsed = {}
       /\ \A id \in DOMAIN logs' :
            Cardinality(UsedBy(units', id)) <= Len(logs'[id].details)]_vars

\* The record is Scheduled with synthetic details and no unit refers to it,
\* or it is Completed and its details are exactly the units Used that refer
\* to it.
RecordConsistent(inv, log, id) ==
    LET ids == {log[id].details[i].id : i \in 1..Len(log[id].details)}
    IN  IF log[id].status = "Scheduled"
        THEN ids \subseteq {NoId} /\ UsedBy(inv, id) = {}
        ELSE log[id].status = "Completed" /\ ids = UsedBy(inv, id)

\* C37: after an edit of a record seen as Scheduled and after a fulfilment
\* of it, in whichever order they commit, the record is consistent; the
\* Scheduled branch of the edit does not overwrite the details of a record
\* that the store holds as Completed.
EditFulfillRace ==
    [][/\ (last'.op \in {"EditScheduled", "Fulfill"} /\ last'.ok)
            => LET id == IF last'.op = "Fulfill" THEN last'.arg.id
                         ELSE last'.arg.log.id
               IN  RecordConsistent(units', logs', id)
       /\ (last'.op = "EditScheduled" /\ last'.ok
               /\ logs[last'.arg.log.id].status = "Completed")
            => logs'[last'.arg.log.id].details = logs[last'.arg.log.id].details]_vars

\* C38: a manual adjustment that commits leaves exactly the target number of
\* units On Hand at its key in the store, whatever the caller's view showed.
StockEditReachesTarget ==
    [][(last'.op = "StockEdit" /\ last'.ok)
            => CurrentStock(units', last'.arg.materialType, last'.arg.length)
                   = last'.arg.newQuantity]_vars

\* C39: the sheets an edit of an order writes carry the order timestamp of
\* the sheets they replace, so the key by which the selection orders the
\* lots is the one the order had; the sheets of a new order carry the
\* current time.
OrderEditKeepsTimestamp ==
    [][(last'.op \in {"AddOrder", "EditOrder"} /\ last'.ok) =>
        LET group == last'.arg.group
            created == DOMAIN units' \ DOMAIN units
        IN  \A id \in created :
                IF last'.op = "EditOrder"
                THEN \A i \in 1..Len(group.details) :
                        /\ units'[id].createdAt = group.details[i].createdAt
                        /\ group.details[i].id \in DOMAIN units
                            => units'[id].createdAt
                                   = units[group.details[i].id].createdAt
                ELSE units'[id].createdAt = now]_vars

\* An order placed earlier was edited: the replacement carries the earlier
\* timestamp, not the time of the edit.
OrderEditedLater ==
    /\ last.op = "EditOrder"
    /\ last.ok
    /\ last.arg.group.dateOrdered < now
    /\ \E id \in DOMAIN units \ GroupIds(last.arg.group) :
            units[id].createdAt = last.arg.group.dateOrdered

============================================================================
